---- MODULE Spec2Model ----
(***************************************************************************)
(* Model of the training engine of nemoa's restricted Boltzmann machines:  *)
(* system.optimizeParams (package/nemoa/system/base.py), the contrastive   *)
(* divergency loop of rbm / grbm (package/nemoa/system/rbm.py) and the     *)
(* progress tracker (class tracker of base.py).                            *)
(*                                                                         *)
(* Numbers.  The program computes with IEEE doubles.  The model computes   *)
(* in fixed point: a real x is the integer x * Scale, products and         *)
(* quotients are rescaled and truncated (\div).  One more value,           *)
(* NonFinite, stands for inf and nan; every arithmetic operator returns    *)
(* it when an operand is NonFinite or when a division has divisor 0.       *)
(*                                                                         *)
(* Arrays.  A numpy array of shape (n, m) is a sequence of n rows, each a  *)
(* sequence of m numbers; an array of shape (m,) is a sequence of m        *)
(* numbers.                                                                *)
(*                                                                         *)
(* Dictionaries.  A python dict is a function from its keys (strings) to   *)
(* its values; "k in d" is k \in DOMAIN d.                                 *)
(***************************************************************************)
EXTENDS Integers, Sequences, FiniteSets, TLC

----------------------------------------------------------------------------
(* Fixed-point numbers *)

Scale == 10^3

NonFinite == 0 - 2^30

IsFinite(x) == x # NonFinite

Fx(n) == n * Scale

Add(a, b) == IF a = NonFinite \/ b = NonFinite THEN NonFinite ELSE a + b

Sub(a, b) == IF a = NonFinite \/ b = NonFinite THEN NonFinite ELSE a - b

Neg(a) == IF a = NonFinite THEN NonFinite ELSE 0 - a

\* truncation towards zero, as the sign of a small double is kept
Trunc(p, q) == IF p >= 0 THEN p \div q ELSE 0 - ((0 - p) \div q)

Mul(a, b) == IF a = NonFinite \/ b = NonFinite THEN NonFinite
             ELSE Trunc(a * b, Scale)

\* a / b of two reals; x / 0.0 is inf or nan in numpy (a warning, no exception)
Div(a, b) == IF a = NonFinite \/ b = NonFinite \/ b = 0 THEN NonFinite
             ELSE IF b > 0 THEN Trunc(a * Scale, b)
             ELSE Trunc(0 - (a * Scale), 0 - b)

\* a / float(n) for a count n > 0
DivN(a, n) == IF a = NonFinite THEN NonFinite ELSE Trunc(a, n)

MaxOf(a, b) == IF a >= b THEN a ELSE b

MinOf(a, b) == IF a <= b THEN a ELSE b

\* python's max(a, b) and min(a, b): a, unless b compares greater (less); a
\* comparison with nan is false
pyMax(a, b) == IF a = NonFinite \/ b = NonFinite THEN a ELSE MaxOf(a, b)

pyMin(a, b) == IF a = NonFinite \/ b = NonFinite THEN a ELSE MinOf(a, b)

\* numpy.exp on doubles: 0.0 below about -745 (underflow), inf above about 709
ExpUnderflow == 0 - 745 * Scale

ExpOverflow == 709 * Scale

\* e^l between the two: e^1 = 2.718, and the series 1 + l + l^2 / 2 on [-1, 1];
\* a positive double stays positive
RECURSIVE ExpFx(_)
ExpFx(l) ==
    IF l > Scale THEN Mul(ExpFx(l - Scale), 2718)
    ELSE IF l < 0 - Scale THEN MaxOf(1, Div(ExpFx(l + Scale), 2718))
    ELSE MaxOf(1, Scale + l + Trunc(l * l, 2 * Scale))

Exp(l) == IF l = NonFinite THEN NonFinite
          ELSE IF l < ExpUnderflow THEN 0
          ELSE IF l > ExpOverflow THEN NonFinite
          ELSE ExpFx(l)

----------------------------------------------------------------------------
(* numpy arrays *)

RECURSIVE SumSeq(_)
SumSeq(s) == IF s = << >> THEN 0 ELSE Add(s[1], SumSeq(Tail(s)))

Rows(M) == Len(M)

Cols(M) == Len(M[1])

\* M.size
Size(M) == Rows(M) * Cols(M)

\* M.T
Transpose(M) == [j \in 1..Cols(M) |-> [i \in 1..Rows(M) |-> M[i][j]]]

\* numpy.dot(X, Y) of shapes (n, k) and (k, m)
Dot(X, Y) == [i \in 1..Rows(X) |-> [j \in 1..Cols(Y) |->
                 SumSeq([k \in 1..Cols(X) |-> Mul(X[i][k], Y[k][j])])]]

\* numpy.mean(M, axis = 0): shape (m,)
MeanAxis0(M) == [j \in 1..Cols(M) |->
                    DivN(SumSeq([i \in 1..Rows(M) |-> M[i][j]]), Rows(M))]

\* vec.reshape((1, v)); a wrong v is a ValueError, which no caller here provokes
Reshape1(vec, v) == << [j \in 1..v |-> vec[j]] >>

\* elementwise X - Y of equal shapes
MatSub(X, Y) == [i \in 1..Rows(X) |-> [j \in 1..Cols(X) |-> Sub(X[i][j], Y[i][j])]]

\* elementwise X + Y of equal shapes (X += Y keeps the shape of X)
MatAdd(X, Y) == [i \in 1..Rows(X) |-> [j \in 1..Cols(X) |-> Add(X[i][j], Y[i][j])]]

\* elementwise X * Y of equal shapes
MatMul(X, Y) == [i \in 1..Rows(X) |-> [j \in 1..Cols(X) |-> Mul(X[i][j], Y[i][j])]]

\* r * X for a scalar r
MatScale(r, X) == [i \in 1..Rows(X) |-> [j \in 1..Cols(X) |-> Mul(r, X[i][j])]]

\* X / float(n) for a count n
MatDivN(X, n) == [i \in 1..Rows(X) |-> [j \in 1..Cols(X) |-> DivN(X[i][j], n)]]

\* X of shape (n, m) with a row b of shape (1, m) broadcast: X - b
SubRow(X, b) == [i \in 1..Rows(X) |-> [j \in 1..Cols(X) |-> Sub(X[i][j], b[1][j])]]

\* X of shape (1, m) divided by a row of shape (1, m)
DivRow(X, d) == [i \in 1..Rows(X) |-> [j \in 1..Cols(X) |-> Div(X[i][j], d[1][j])]]

\* X of shape (v, h) divided by a column of shape (v, 1), broadcast over h
DivCol(X, c) == [i \in 1..Rows(X) |-> [j \in 1..Cols(X) |-> Div(X[i][j], c[i][1])]]

\* numpy.exp(M), elementwise
MatExp(M) == [i \in 1..Rows(M) |-> [j \in 1..Cols(M) |-> Exp(M[i][j])]]

\* the shape of a two-dimensional array
Shape(M) == << Rows(M), Cols(M) >>

\* X + Y of numpy for two-dimensional arrays: an axis of length 1 is
\* stretched to the length of the other array, and the result is a new array
\* of the common shape
NpAdd(X, Y) ==
    [i \in 1..MaxOf(Rows(X), Rows(Y)) |->
        [j \in 1..MaxOf(Cols(X), Cols(Y)) |->
            Add(X[IF Rows(X) = 1 THEN 1 ELSE i][IF Cols(X) = 1 THEN 1 ELSE j],
                Y[IF Rows(Y) = 1 THEN 1 ELSE i][IF Cols(Y) = 1 THEN 1 ELSE j])]]

\* X of shape (1, m) += a vector of shape (m,), broadcast
AddVec(X, vec) == [i \in 1..Rows(X) |-> [j \in 1..Cols(X) |-> Add(X[i][j], vec[j])]]

MatFinite(M) == \A i \in 1..Rows(M) : \A j \in 1..Cols(M) : IsFinite(M[i][j])

----------------------------------------------------------------------------
(* Python lists and dictionaries *)

\* {}
EmptyDict == [k \in {} |-> 0]

\* x in list
In(x, list) == \E i \in 1..Len(list) : list[i] = x

\* The keys whose values are themselves dictionaries.  isinstance(v, dict)
\* cannot be asked of a value here, so it is asked of the key: the sources of
\* a configuration agree on which of their entries are dictionaries.
DictKeys == {"extra"}

\* a merge in which the entries of d2 win over those of d1
RECURSIVE dictMergeKeepRight(_, _)
dictMergeKeepRight(d1, d2) ==
    [k \in DOMAIN d1 \cup DOMAIN d2 |->
        IF k \notin DOMAIN d1 THEN d2[k]
        ELSE IF k \notin DOMAIN d2 THEN d1[k]
        ELSE IF k \in DictKeys THEN dictMergeKeepRight(d1[k], d2[k])
        ELSE d2[k]]

\* d1 merged over d2, in place in d2 (the value is d2 after the call): the
\* loop of merge with mode = 0
RECURSIVE dictMerge(_, _)
dictMerge(d1, d2) ==
    [k \in DOMAIN d1 \cup DOMAIN d2 |->
        IF k \notin DOMAIN d1 THEN d2[k]
        ELSE IF k \notin DOMAIN d2 THEN d1[k]
        ELSE IF k \in DictKeys THEN dictMerge(d1[k], d2[k])
        ELSE d1[k]]

----------------------------------------------------------------------------
(* Configuration defaults.  Rates and expectation values are reals (fixed  *)
(* point), counts are integers, times are seconds.                         *)

RbmDefaultOptimize ==
    [ checkDataset            |-> FALSE,
      ignoreUnits             |-> << >>,
      iterations              |-> 1,
      minibatchSize           |-> 100,
      minibatchInterval       |-> 10,
      updates                 |-> 100000,
      algorithm               |-> "vrcd",
      updateCdkSteps          |-> 1,
      updateCdkIterations     |-> 1,
      updateRate              |-> 100,
      updateFactorWeights     |-> 1000,
      updateFactorHbias       |-> 100,
      updateFactorVbias       |-> 100,
      modSaEnable             |-> TRUE,
      modSaInitTemperature    |-> 1000,
      modSaAnnealingFactor    |-> 1000,
      modKlEnable             |-> TRUE,
      modKlRate               |-> 0,
      modKlExpect             |-> 500,
      selectivityFactor       |-> 0,
      selectivitySize         |-> 500,
      modCorruptionEnable     |-> TRUE,
      modCorruptionType       |-> "mask",
      modCorruptionFactor     |-> 500,
      useAdjacency            |-> FALSE,
      inspect                 |-> TRUE,
      inspectFunction         |-> "accuracy",
      inspectTimeInterval     |-> 10,
      inspectEstimateTime     |-> TRUE,
      inspectEstimateTimeWait |-> 20 ]

GrbmDefaultOptimize ==
    [ checkDataset            |-> TRUE,
      ignoreUnits             |-> << >>,
      iterations              |-> 1,
      updates                 |-> 100000,
      algorithm               |-> "cd",
      updateCdkSteps          |-> 1,
      updateCdkIterations     |-> 1,
      updateRate              |-> 1,
      updateFactorWeights     |-> 1000,
      updateFactorHbias       |-> 100,
      updateFactorVbias       |-> 100,
      updateFactorVlvar       |-> 10,
      minibatchSize           |-> 500,
      minibatchInterval       |-> 1,
      modCorruptionEnable     |-> FALSE,
      modCorruptionType       |-> "none",
      modCorruptionFactor     |-> 0,
      modSaEnable             |-> TRUE,
      modSaInitTemperature    |-> 1000,
      modSaAnnealingFactor    |-> 1000,
      modKlEnable             |-> TRUE,
      modKlRate               |-> 0,
      modKlExpect             |-> 500,
      selectivityFactor       |-> 0,
      selectivitySize         |-> 500,
      useAdjacency            |-> FALSE,
      inspect                 |-> TRUE,
      inspectFunction         |-> "accuracy",
      inspectTimeInterval     |-> 20,
      inspectEstimateTime     |-> TRUE,
      inspectEstimateTimeWait |-> 20 ]

\* self._default('optimize') of the class of the instance
DefaultOptimize(cls) == IF cls = "grbm" THEN GrbmDefaultOptimize
                        ELSE RbmDefaultOptimize

\* self.getType(): '<package>.<class>'
getType(cls) == IF cls = "grbm" THEN "rbm.grbm" ELSE "rbm.rbm"

\* str.lower() on the algorithm names that occur
Lower(s) == IF s \in {"cd", "CD", "Cd"} THEN "cd"
            ELSE IF s \in {"vrcd", "VRCD"} THEN "vrcd"
            ELSE s

----------------------------------------------------------------------------
(* State *)

VARIABLES
    cls,        \* class of the system instance: "rbm" or "grbm"
    config,     \* self._config['optimize']
    units,      \* self.units: the parameters of the visible and hidden group
    links,      \* self._params['links'][(0, 1)]: adjacency A and weights W
    pc,         \* position of the optimizeParams call in progress, or "idle"
    retVal,     \* what the last optimizeParams call returned or raised
    schedule,   \* the schedule argument of the last optimizeParams call
    dataset,    \* the dataset argument of the last optimizeParams call
    nUpdates,   \* the length of xrange(cfg['updates']), fixed at loop entry
    epoch,      \* the loop variable of _optCd
    data,       \* the minibatch held by _optCd
    dTuple,     \* the sampling tuple held by _optCd
    tracker,    \* the tracker instance of the call: _system, _inspect, ...
    store,      \* tracker._store, an attribute of the class tracker
    now,        \* the last reading of time.time()
    calls,      \* number of optimizeParams calls made
    run,        \* what the current call has done so far (see NewRun)
    heap,       \* the objects made by copy.deepcopy, by address 1, 2, ...
    held,       \* the structures a caller got from getParams, oldest first
    chain       \* the locals of the general path of _optCdSampling

vars == << cls, config, units, links, pc, retVal, schedule, dataset, nUpdates,
           epoch, data, dTuple, tracker, store, now, calls, run, heap, held,
           chain >>

\* what a call of optimizeParams leaves alone
caller == << heap, held, chain >>

params == << units, links >>

loopVars == << nUpdates, epoch, data, dTuple >>

----------------------------------------------------------------------------
(* Bounds of the model *)

\* the largest configured number of updates
MaxUpdates == 3

\* the clock stops advancing here
MaxClock == 45

\* the advance of the clock between two triggers: none, or 15 seconds
ClockSteps == {0, 15}

----------------------------------------------------------------------------
(* Datasets and what the unit evaluations return *)

\* dataset.getData(): binary data, gauss normalized data, and data that is
\* neither
DataBinary == << << Fx(1), 0 >>, << 0, Fx(1) >> >>

DataGauss == << << Fx(1), 0 - Fx(1) >>, << 0 - Fx(1), Fx(1) >> >>

DataOther == << << Fx(3), 0 >>, << 0, Fx(2) >> >>

Datasets == { [name |-> "binary", data |-> DataBinary],
              [name |-> "gauss",  data |-> DataGauss],
              [name |-> "other",  data |-> DataOther] }

Entries(M) == [n \in 1..Size(M) |-> M[((n - 1) \div Cols(M)) + 1][((n - 1) % Cols(M)) + 1]]

\* data.mean()
MeanAll(M) == DivN(SumSeq(Entries(M)), Size(M))

\* numpy.var(M) = data.std() ** 2
VarAll(M) ==
    LET m == MeanAll(M)
        e == Entries(M)
    IN  DivN(SumSeq([n \in 1..Len(e) |-> Mul(Sub(e[n], m), Sub(e[n], m))]), Len(e))

Abs(x) == IF x < 0 THEN 0 - x ELSE x

\* what nemoa.log('error', ...) returns: the callers return it as their
\* result, and test it as a truth value
logError == "False"

\* the truth value of what a method returned
Truthy(v) == v = "True"

\* (data == data.astype(bool)).sum() == data.size
binary(M) ==
    \A i \in 1..Rows(M) : \A j \in 1..Cols(M) : M[i][j] \in {0, Fx(1)}

\* system._isDatasetBinary
isDatasetBinary(ds) == IF ~ binary(ds.data) THEN Truthy(logError) ELSE TRUE

\* numpy.abs(mean) >= maxMean or sdev >= maxSdev, with maxMean = 0.05 and
\* maxSdev = 1.05 (sdev >= 1.05 is var >= 1.1025)
outOfGauss(M) ==
    \/ Abs(MeanAll(M)) >= 50
    \/ VarAll(M) >= 1103

\* system._isDatasetGaussNormalized
isDatasetGaussNormalized(ds) ==
    IF outOfGauss(ds.data) THEN Truthy(logError) ELSE TRUE

\* the check of the base class for every class, as if grbm did not override it
checkDatasetOfBase(c, ds) == isDatasetBinary(ds)

\* rbm._checkDataset / grbm._checkDataset
checkDataset(c, ds) == IF c = "grbm" THEN isDatasetGaussNormalized(ds)
                       ELSE isDatasetBinary(ds)

\* self._optGetData(dataset): a minibatch of rows of the dataset
Batches(ds) == { << ds.data[1] >>, ds.data }

\* A matrix of n rows and m columns filled with x
Fill(n, m, x) == [i \in 1..n |-> [j \in 1..m |-> x]]

----------------------------------------------------------------------------
(* The update engine.  t is the sampling tuple (vData, hData, vModel,      *)
(* hModel), u the unit groups, l the links, cfg the optimize configuration *)
(* and c the class of the instance, which selects the overriding methods   *)
(* of grbm.                                                                *)

\* units[group].update(delta) with delta['bias'] (and delta['lvar']) of the
\* shape of the parameter
unitUpdate(unit, delta) ==
    [k \in DOMAIN unit |->
        IF k \in DOMAIN delta /\ k \in {"bias", "lvar"}
        THEN NpAdd(unit[k], delta[k])
        ELSE unit[k]]

\* units[group].update(delta) with delta['bias'] of shape (h,), broadcast
unitUpdateVec(unit, delta) ==
    [k \in DOMAIN unit |->
        IF k \in DOMAIN delta /\ k \in {"bias", "lvar"}
        THEN NpAdd(unit[k], << delta[k] >>)
        ELSE unit[k]]

\* 0.5 * (x - b) ** 2 - x * numpy.dot(h, W.T), of the shape of x
gaussEnergy(x, h, b, W) ==
    LET xb == SubRow(x, b)
    IN  MatSub(MatScale(500, MatMul(xb, xb)), MatMul(x, Dot(h, Transpose(W))))

\* rbm._optCdDeltaV and grbm._optCdDeltaV
optCdDeltaV(c, cfg, u, l, t) ==
    LET v    == Len(u.visible.label)
        diff == Reshape1(MeanAxis0(MatSub(t.vData, t.vModel)), v)
    IN  IF c = "grbm"
        THEN LET W   == l.W
                 var == MatExp(u.visible.lvar)
                 b   == u.visible.bias
                 r1  == Mul(cfg.updateRate, cfg.updateFactorVbias)
                 r2  == Mul(cfg.updateRate, cfg.updateFactorVlvar)
                 d   == Reshape1(MeanAxis0(gaussEnergy(t.vData, t.hData, b, W)), v)
                 m   == Reshape1(MeanAxis0(gaussEnergy(t.vModel, t.hModel, b, W)), v)
             IN  [ bias |-> DivRow(MatScale(r1, diff), var),
                   lvar |-> DivRow(MatScale(r2, MatSub(d, m)), var) ]
        ELSE LET r == Mul(cfg.updateRate, cfg.updateFactorVbias)
             IN  [ bias |-> MatScale(r, diff) ]

\* _optCdDeltaH without the mean over the samples: one row for every sample
optCdDeltaHOfSamples(c, cfg, u, l, t) ==
    LET r == Mul(cfg.updateRate, cfg.updateFactorHbias)
    IN  [ bias |-> MatScale(r, MatSub(t.hData, t.hModel)) ]

\* rbm._optCdDeltaH
optCdDeltaH(c, cfg, u, l, t) ==
    LET h    == Len(u.hidden.label)
        r    == Mul(cfg.updateRate, cfg.updateFactorHbias)
        diff == Reshape1(MeanAxis0(MatSub(t.hData, t.hModel)), h)
    IN  [ bias |-> MatScale(r, diff) ]

\* rbm._optCdDeltaL and grbm._optCdDeltaL
optCdDeltaL(c, cfg, u, l, t) ==
    LET r == Mul(cfg.updateRate, cfg.updateFactorWeights)
        D == MatDivN(Dot(Transpose(t.vData), t.hData), Size(t.vData))
        M == MatDivN(Dot(Transpose(t.vModel), t.hModel), Size(t.vData))
    IN  IF c = "grbm"
        THEN LET var == Transpose(MatExp(u.visible.lvar))
             IN  [ W |-> DivCol(MatScale(r, MatSub(D, M)), var) ]
        ELSE [ W |-> MatScale(r, MatSub(D, M)) ]

\* rbm._optKlDeltaH: dBias has shape (h,)
optKlDeltaH(cfg, t) ==
    LET p == cfg.modKlExpect
        q == MeanAxis0(t.hData)
        r == pyMax(cfg.updateRate, cfg.modKlRate)
    IN  [ bias |-> [j \in 1..Len(q) |-> Neg(Mul(r, Sub(q[j], p)))] ]

\* rbm._updateLinks
updateLinks(l, updates) == [l EXCEPT !.W = MatAdd(@, updates.W)]

\* _optCdUpdate with the sparsity update applied whenever modKlEnable is
\* set, without the test of 'hidden' against the ignore-list
optCdUpdateSparsityUnguarded(c, cfg, u, l, t) ==
    LET ignore == cfg.ignoreUnits
        doV    == ~ In("visible", ignore)
        doH    == ~ In("hidden", ignore)
        doL    == ~ In("links", ignore)
        deltaV == optCdDeltaV(c, cfg, u, l, t)
        deltaH == optCdDeltaH(c, cfg, u, l, t)
        deltaL == optCdDeltaL(c, cfg, u, l, t)
        u1     == IF doV THEN [u EXCEPT !.visible = unitUpdate(@, deltaV)] ELSE u
        u2     == IF doH THEN [u1 EXCEPT !.hidden = unitUpdate(@, deltaH)] ELSE u1
        l1     == IF doL THEN updateLinks(l, deltaL) ELSE l
        u3     == IF cfg.modKlEnable
                  THEN [u2 EXCEPT !.hidden = unitUpdateVec(@, optKlDeltaH(cfg, t))]
                  ELSE u2
        u4     == IF cfg.selectivityFactor > 0 /\ doH
                  THEN [u3 EXCEPT !.hidden = unitUpdateVec(@, optKlDeltaH(cfg, t))]
                  ELSE u3
    IN  [ units    |-> u4,
          links    |-> l1,
          computed |-> (IF doV THEN {"deltaV"} ELSE {})
                       \cup (IF doH THEN {"deltaH"} ELSE {})
                       \cup (IF doL THEN {"deltaL"} ELSE {})
                       \cup (IF cfg.modKlEnable THEN {"klDeltaH"} ELSE {})
                       \cup (IF cfg.selectivityFactor > 0 /\ doH
                             THEN {"selectivityDeltaH"} ELSE {}) ]

\* _optCdUpdate with every delta computed right before it is applied: the
\* hidden and the link delta read the parameters the updates before left
optCdUpdateInterleaved(c, cfg, u, l, t) ==
    LET ignore == cfg.ignoreUnits
        doV    == ~ In("visible", ignore)
        doH    == ~ In("hidden", ignore)
        doL    == ~ In("links", ignore)
        u1     == IF doV
                  THEN [u EXCEPT !.visible = unitUpdate(@, optCdDeltaV(c, cfg, u, l, t))]
                  ELSE u
        u2     == IF doH
                  THEN [u1 EXCEPT !.hidden = unitUpdate(@, optCdDeltaH(c, cfg, u1, l, t))]
                  ELSE u1
        l1     == IF doL THEN updateLinks(l, optCdDeltaL(c, cfg, u2, l, t)) ELSE l
        u3     == IF cfg.modKlEnable /\ doH
                  THEN [u2 EXCEPT !.hidden = unitUpdateVec(@, optKlDeltaH(cfg, t))]
                  ELSE u2
        u4     == IF cfg.selectivityFactor > 0 /\ doH
                  THEN [u3 EXCEPT !.hidden = unitUpdateVec(@, optKlDeltaH(cfg, t))]
                  ELSE u3
    IN  [ units    |-> u4,
          links    |-> l1,
          computed |-> (IF doV THEN {"deltaV"} ELSE {})
                       \cup (IF doH THEN {"deltaH"} ELSE {})
                       \cup (IF doL THEN {"deltaL"} ELSE {})
                       \cup (IF cfg.modKlEnable /\ doH THEN {"klDeltaH"} ELSE {})
                       \cup (IF cfg.selectivityFactor > 0 /\ doH
                             THEN {"selectivityDeltaH"} ELSE {}) ]

\* rbm._optCdUpdate: the parameters after the cycle, and the deltas it computed
optCdUpdate(c, cfg, u, l, t) ==
    LET ignore == cfg.ignoreUnits
        doV    == ~ In("visible", ignore)
        doH    == ~ In("hidden", ignore)
        doL    == ~ In("links", ignore)
        \* calculate updates (without affecting the calculations)
        deltaV == optCdDeltaV(c, cfg, u, l, t)
        deltaH == optCdDeltaH(c, cfg, u, l, t)
        deltaL == optCdDeltaL(c, cfg, u, l, t)
        \* update parameters
        u1     == IF doV THEN [u EXCEPT !.visible = unitUpdate(@, deltaV)] ELSE u
        u2     == IF doH THEN [u1 EXCEPT !.hidden = unitUpdate(@, deltaH)] ELSE u1
        l1     == IF doL THEN updateLinks(l, deltaL) ELSE l
        \* (optional) sparsity update
        u3     == IF cfg.modKlEnable /\ doH
                  THEN [u2 EXCEPT !.hidden = unitUpdateVec(@, optKlDeltaH(cfg, t))]
                  ELSE u2
        \* (optional) selectivity update
        u4     == IF cfg.selectivityFactor > 0 /\ doH
                  THEN [u3 EXCEPT !.hidden = unitUpdateVec(@, optKlDeltaH(cfg, t))]
                  ELSE u3
    IN  [ units    |-> u4,
          links    |-> l1,
          computed |-> (IF doV THEN {"deltaV"} ELSE {})
                       \cup (IF doH THEN {"deltaH"} ELSE {})
                       \cup (IF doL THEN {"deltaL"} ELSE {})
                       \cup (IF cfg.modKlEnable /\ doH THEN {"klDeltaH"} ELSE {})
                       \cup (IF cfg.selectivityFactor > 0 /\ doH
                             THEN {"selectivityDeltaH"} ELSE {}) ]

----------------------------------------------------------------------------
(* The rate controller *)

\* tracker.read(): self._store[-1] if the store is not empty, else {}
trackerRead(st) == IF Len(st) >= 1 THEN st[Len(st)] ELSE EmptyDict

\* tracker.write(**kwargs) with id = -1: appended to an empty store, else
\* the last entry is replaced
trackerWrite(st, kwargs) == IF Len(st) = 0 THEN Append(st, kwargs)
                            ELSE [st EXCEPT ![Len(st)] = kwargs]

\* numpy.linalg.lstsq(A.T, y)[0][0] for A = [arange(0, length), ones(length)]:
\* the slope of the least-squares line through (0, y[1]), (1, y[2]), ...;
\* for a single point the solution of least norm has slope 0
lstsqSlope(y) ==
    LET L   == Len(y)
        sx  == SumSeq([i \in 1..L |-> i - 1])
        sxx == SumSeq([i \in 1..L |-> (i - 1) * (i - 1)])
        sy  == SumSeq(y)
        sxy == SumSeq([i \in 1..L |-> IF y[i] = NonFinite THEN NonFinite
                                      ELSE (i - 1) * y[i]])
    IN  IF L < 2 THEN 0
        ELSE IF sy = NonFinite \/ sxy = NonFinite THEN NonFinite
        ELSE Trunc(L * sxy - sx * sy, L * sxx - sx * sx)

\* _optVmraUpdate that keeps the whole history: the fit reads the newest
\* samples of the window, and nothing is cut off what is written
optVmraUpdateCumulative(cfg, l, st) ==
    LET var    == VarAll(l.W)
        old    == trackerRead(st)
        wVar   == IF "wVar" \notin DOMAIN old THEN << var >>
                  ELSE << var >> \o old.wVar
        length == cfg.modVmraLength
        adapt  == Len(wVar) > length
        cut    == IF adapt THEN SubSeq(wVar, 1, length) ELSE wVar
        grad   == Neg(lstsqSlope(cut))
        delw   == Mul(cfg.modVmraFactor, grad)
        rate   == pyMin(pyMax(delw, cfg.modVmraMinRate), cfg.modVmraMaxRate)
    IN  [ config  |-> IF adapt THEN [cfg EXCEPT !.updateRate = rate] ELSE cfg,
          store   |-> trackerWrite(st, [wVar |-> wVar]),
          adapted |-> adapt ]

\* _optVmraUpdate with the gradient taken as the slope itself, not its negative
optVmraUpdateAlongSlope(cfg, l, st) ==
    LET var    == VarAll(l.W)
        old    == trackerRead(st)
        wVar   == IF "wVar" \notin DOMAIN old THEN << var >>
                  ELSE << var >> \o old.wVar
        length == cfg.modVmraLength
        adapt  == Len(wVar) > length
        cut    == IF adapt THEN SubSeq(wVar, 1, length) ELSE wVar
        grad   == lstsqSlope(cut)
        delw   == Mul(cfg.modVmraFactor, grad)
        rate   == pyMin(pyMax(delw, cfg.modVmraMinRate), cfg.modVmraMaxRate)
    IN  [ config  |-> IF adapt THEN [cfg EXCEPT !.updateRate = rate] ELSE cfg,
          store   |-> trackerWrite(st, [wVar |-> cut]),
          adapted |-> adapt ]

\* rbm._optVmraUpdate: the configuration and the store after the call
optVmraUpdate(cfg, l, st) ==
    LET var    == VarAll(l.W)
        old    == trackerRead(st)
        wVar   == IF "wVar" \notin DOMAIN old THEN << var >>
                  ELSE << var >> \o old.wVar
        length == cfg.modVmraLength
        adapt  == Len(wVar) > length
        cut    == IF adapt THEN SubSeq(wVar, 1, length) ELSE wVar
        grad   == Neg(lstsqSlope(cut))
        delw   == Mul(cfg.modVmraFactor, grad)
        rate   == pyMin(pyMax(delw, cfg.modVmraMinRate), cfg.modVmraMaxRate)
    IN  [ config  |-> IF adapt THEN [cfg EXCEPT !.updateRate = rate] ELSE cfg,
          store   |-> trackerWrite(st, [wVar |-> cut]),
          adapted |-> adapt ]

----------------------------------------------------------------------------
(* The progress tracker.  One call of trigger reads the clock several      *)
(* times; the model gives all readings of one call the same value t.       *)

\* tracker.__init__ / tracker._configure; _data is None and _state is the
\* empty dictionary of the class
trackerNew(cfg) ==
    [ inspect  |-> IF "inspect" \in DOMAIN cfg THEN cfg.inspect ELSE TRUE,
      estimate |-> IF "inspectEstimateTime" \in DOMAIN cfg
                   THEN cfg.inspectEstimateTime ELSE TRUE,
      data     |-> "None",
      state    |-> EmptyDict ]

\* tracker.setTestData
setTestData(tr, d) == [tr EXCEPT !.data = d]

\* _initState with the epoch counter started at 1
initStateFromOne(tr, t) ==
    LET base == [startTime |-> t, epoch |-> 1, inspection |-> << >>, abort |-> FALSE]
        insp == IF tr.inspect THEN [inspectTime |-> t] ELSE EmptyDict
        esti == IF tr.estimate
                THEN [estimateStarted |-> FALSE, estimateEnded |-> FALSE]
                ELSE EmptyDict
    IN  dictMerge(esti, dictMerge(insp, base))

\* tracker._initState
initState(tr, t) ==
    LET base == [startTime |-> t, epoch |-> 0, inspection |-> << >>, abort |-> FALSE]
        insp == IF tr.inspect THEN [inspectTime |-> t] ELSE EmptyDict
        esti == IF tr.estimate
                THEN [estimateStarted |-> FALSE, estimateEnded |-> FALSE]
                ELSE EmptyDict
    IN  dictMerge(esti, dictMerge(insp, base))

\* _triggerKeyEvent that sets the abort flag and leaves cfg['updates'] alone
triggerKeyEventKeepsUpdates(tr, cfg, c) ==
    IF c = "q"
    THEN [ tracker |-> [tr EXCEPT !.state.abort = TRUE], config |-> cfg ]
    ELSE [ tracker |-> tr, config |-> cfg ]

\* tracker._triggerKeyEvent with c the character nemoa.common.getch() returned
triggerKeyEvent(tr, cfg, c) ==
    IF c = "q"
    THEN [ tracker |-> [tr EXCEPT !.state.abort = TRUE],
           config  |-> [cfg EXCEPT !.updates = tr.state.epoch] ]
    ELSE [ tracker |-> tr, config |-> cfg ]

\* the estimation block without the assignment of estimateEnded
triggerEstimateUnended(tr, cfg, t) ==
    IF tr.estimate /\ ~ tr.state.estimateEnded
    THEN LET due == (t - tr.state.startTime) > cfg.inspectEstimateTimeWait
         IN  [ tracker   |-> [tr EXCEPT !.state.estimateStarted = TRUE],
               estimated |-> due ]
    ELSE [ tracker |-> tr, estimated |-> FALSE ]

\* the estimation block of tracker.trigger
triggerEstimate(tr, cfg, t) ==
    IF tr.estimate /\ ~ tr.state.estimateEnded
    THEN LET due == (t - tr.state.startTime) > cfg.inspectEstimateTimeWait
         IN  [ tracker   |-> [tr EXCEPT !.state.estimateStarted = TRUE,
                                        !.state.estimateEnded = due],
               estimated |-> due ]
    ELSE [ tracker |-> tr, estimated |-> FALSE ]

\* float(epoch) / float(updates) * 100.0
progress(ep, updates) == Mul(Div(Fx(ep), Fx(updates)), Fx(100))

\* _triggerEval with the interval as the only condition of an inspection
triggerEvalByInterval(tr, cfg, t) ==
    IF tr.data = "None"
    THEN [ tracker |-> [tr EXCEPT !.inspect = FALSE], evals |-> 0, final |-> FALSE ]
    ELSE IF tr.state.epoch = cfg.updates
    THEN [ tracker |-> tr, evals |-> 1, final |-> TRUE ]
    ELSE IF (t - tr.state.inspectTime) > cfg.inspectTimeInterval
    THEN LET progr == progress(tr.state.epoch, cfg.updates)
         IN  [ tracker |-> [tr EXCEPT !.state.inspectTime = t,
                                      !.state.inspection =
                                           Append(@, << progr, "value" >>)],
               evals   |-> 1,
               final   |-> FALSE ]
    ELSE [ tracker |-> tr, evals |-> 0, final |-> FALSE ]

\* tracker._triggerEval: the tracker after the call and the number of
\* evaluations of the inspection function
triggerEval(tr, cfg, t) ==
    IF tr.data = "None"
    THEN [ tracker |-> [tr EXCEPT !.inspect = FALSE], evals |-> 0, final |-> FALSE ]
    ELSE IF tr.state.epoch = cfg.updates
    THEN [ tracker |-> tr, evals |-> 1, final |-> TRUE ]
    ELSE IF /\ (t - tr.state.inspectTime) > cfg.inspectTimeInterval
            /\ ~ (/\ tr.estimate
                  /\ tr.state.estimateStarted
                  /\ ~ tr.state.estimateEnded)
    THEN LET progr == progress(tr.state.epoch, cfg.updates)
         IN  [ tracker |-> [tr EXCEPT !.state.inspectTime = t,
                                      !.state.inspection =
                                           Append(@, << progr, "value" >>)],
               evals   |-> 1,
               final   |-> FALSE ]
    ELSE [ tracker |-> tr, evals |-> 0, final |-> FALSE ]

\* trigger with the evaluation made on the configuration as it was before
\* the keyboard was read
triggerEvalBeforeKey(tr, cfg, c, t) ==
    LET tr0 == IF DOMAIN tr.state = {} THEN [tr EXCEPT !.state = initState(tr, t)]
               ELSE tr
        tr1 == [tr0 EXCEPT !.state.epoch = @ + 1]
        key == triggerKeyEvent(tr1, cfg, c)
        est == triggerEstimate(key.tracker, key.config, t)
        evl == IF est.tracker.inspect THEN triggerEval(est.tracker, cfg, t)
               ELSE [ tracker |-> est.tracker, evals |-> 0, final |-> FALSE ]
    IN  [ tracker   |-> evl.tracker,
          config    |-> key.config,
          event     |-> IF evl.tracker.state.abort THEN "abort" ELSE "True",
          estimated |-> est.estimated,
          evals     |-> evl.evals,
          final     |-> evl.final ]

\* tracker.trigger with the character c on the keyboard and the clock at t
trigger(tr, cfg, c, t) ==
    LET tr0 == IF DOMAIN tr.state = {} THEN [tr EXCEPT !.state = initState(tr, t)]
               ELSE tr
        tr1 == [tr0 EXCEPT !.state.epoch = @ + 1]
        key == triggerKeyEvent(tr1, cfg, c)
        est == triggerEstimate(key.tracker, key.config, t)
        evl == IF est.tracker.inspect THEN triggerEval(est.tracker, key.config, t)
               ELSE [ tracker |-> est.tracker, evals |-> 0, final |-> FALSE ]
    IN  [ tracker   |-> evl.tracker,
          config    |-> key.config,
          event     |-> IF evl.tracker.state.abort THEN "abort" ELSE "True",
          estimated |-> est.estimated,
          evals     |-> evl.evals,
          final     |-> evl.final ]

----------------------------------------------------------------------------
(* Initial states and inputs *)

\* the settings of the variance maximizing rate adaption; the defaults of the
\* classes hold none of them
VmraOff == [ modVmraEnable |-> FALSE ]

VmraOn == [ modVmraEnable   |-> TRUE,
            modVmraLength   |-> 1,
            modVmraInterval |-> 1,
            modVmraWait     |-> 0 - 1,
            modVmraFactor   |-> Fx(10),
            modVmraMinRate  |-> 10,
            modVmraMaxRate  |-> 500 ]

\* the 'optimize' section of the configuration given to the constructor
UserConfigs ==
    { EmptyDict,
      VmraOff,
      dictMerge([algorithm |-> "vrcd", updates |-> 1], VmraOff) }
    \cup { dictMerge([algorithm |-> "cd", updates |-> n, updateRate |-> Fx(1),
                      extra |-> [a |-> 1, b |-> 2]], VmraOff) :
           n \in 0..MaxUpdates }
    \cup { dictMerge([algorithm |-> "cd", updates |-> MaxUpdates,
                      minibatchInterval |-> 2, ignoreUnits |-> << "visible" >>,
                      selectivityFactor |-> Fx(1)], VmraOn) }

\* system._setConfig: the given configuration merged over the defaults
InitConfig(c, user) == dictMerge(user, DefaultOptimize(c))

\* The defaults run 100000 updates; the instances of the model are configured
\* with at most MaxUpdates, or fail before the loop
Runnable(c, cfg) ==
    \/ cfg.updates <= MaxUpdates
    \/ "modVmraEnable" \notin DOMAIN cfg
    \/ Lower(cfg.algorithm) # "cd"

\* the schedules passed to optimizeParams
Schedules(c) ==
    { [ name |-> "plain" ],
      [ name |-> "foreign", params |-> [ other |-> [updates |-> 1] ] ],
      [ name |-> "short",
        params |-> [t \in {getType(c)} |->
                      [updates |-> 1, checkDataset |-> TRUE,
                       extra |-> [b |-> 3, c |-> 4]]] ],
      [ name |-> "quiet",
        params |-> [t \in {getType(c), "other"} |->
                      [algorithm |-> "CD", checkDataset |-> FALSE,
                       inspect |-> FALSE, inspectEstimateTime |-> FALSE,
                       modKlEnable |-> FALSE]] ] }

\* the unit groups after construction: two visible units, one hidden unit
InitUnits(c, lvar) ==
    [ visible |-> IF c = "grbm"
                  THEN [ label |-> << "v1", "v2" >>,
                         bias  |-> << << 0, 0 >> >>,
                         lvar  |-> << << lvar, 0 >> >> ]
                  ELSE [ label |-> << "v1", "v2" >>,
                         bias  |-> << << 0, 0 >> >> ],
      hidden  |-> [ label |-> << "h1" >>, bias |-> << << 0 >> >> ] ]

InitLinks == [ A |-> << << TRUE >>, << TRUE >> >>,
               W |-> << << 100 >>, << 0 - 200 >> >> ]

\* what self._evalUnitExpect and self._evalUnitSamples return for a batch:
\* the units reproduce the data, or the chain ends far from it
Samples(d, u) ==
    LET n == Rows(d)
        v == Len(u.visible.label)
        h == Len(u.hidden.label)
    IN  { [ hData |-> Fill(n, h, 500),   vModel |-> d,
            hModel |-> Fill(n, h, 500) ],
          [ hData |-> Fill(n, h, Fx(1)), vModel |-> Fill(n, v, 0),
            hModel |-> Fill(n, h, 0) ] }

\* no call of _optCdSampling is in its general path
NoChain == [ i |-> 0 ]

\* the character nemoa.common.getch() returns ("" for None)
Keys == { "q", "" }

NoTuple == [ vData |-> << >>, hData |-> << >>, vModel |-> << >>, hModel |-> << >> ]

NoDataset == [ name |-> "", data |-> << >> ]

\* the attributes of the class tracker
ClassTracker == [ inspect |-> TRUE, estimate |-> TRUE, data |-> "None",
                  state |-> EmptyDict ]

\* What a call has done so far: bookkeeping of the model, not of the program
NewRun == [ tracker    |-> FALSE,   \* a tracker was created
            fetches    |-> 0,       \* minibatches fetched
            samplings  |-> 0,       \* _optCdSampling calls
            adaptions  |-> 0,       \* _optVmraUpdate calls
            rateSets   |-> 0,       \* _optVmraUpdate calls that set the rate
            cdUpdates  |-> 0,       \* _optCdUpdate calls
            triggers   |-> 0,       \* tracker.trigger calls
            keys       |-> << >>,   \* the characters the trigger calls read
            events     |-> << >>,   \* what the trigger calls returned
            computed   |-> {},      \* the deltas the last _optCdUpdate computed
            estimates  |-> 0,       \* duration estimates logged
            evals      |-> 0 ]      \* evaluations of the inspection function

\* a logarithmic variance whose exponential underflows to 0.0: what the
\* parameters hold after setParams or an initialisation from a constant column
LvarDegenerate == 0 - 800 * Scale

Init ==
    /\ cls \in {"rbm", "grbm"}
    /\ \E user \in UserConfigs :
          /\ config = InitConfig(cls, user)
          /\ Runnable(cls, config)
    /\ \E lvar \in {0, LvarDegenerate} : units = InitUnits(cls, lvar)
    /\ links = InitLinks
    /\ pc = "idle"
    /\ retVal = "none"
    /\ schedule = [ name |-> "" ]
    /\ dataset = NoDataset
    /\ nUpdates = 0
    /\ epoch = 0
    /\ data = << >>
    /\ dTuple = NoTuple
    /\ tracker = ClassTracker
    /\ store = << >>
    /\ now = 0
    /\ calls = 0
    /\ run = NewRun
    /\ heap = << >>
    /\ held = << >>
    /\ chain = NoChain

----------------------------------------------------------------------------
(* system.optimizeParams, up to the first epoch of the loop *)

\* the schedule has a 'params' section without an entry for the type of the
\* system
scheduleExcludes(c, s) ==
    /\ "params" \in DOMAIN s
    /\ getType(c) \notin DOMAIN s.params

\* optimizeParams that takes a schedule without an entry for the type as a
\* schedule without a 'params' section
resolveConfigSkipping(c, cfg, s) ==
    IF "params" \notin DOMAIN s \/ getType(c) \notin DOMAIN s.params
    THEN [ ok |-> TRUE, config |-> dictMerge(cfg, DefaultOptimize(c)) ]
    ELSE [ ok     |-> TRUE,
           config |-> dictMerge(s.params[getType(c)],
                                dictMerge(cfg, DefaultOptimize(c))) ]

\* lines 281-295: the defaults, the configuration of the instance merged
\* over them, the entry of the schedule merged over both; or the error, with
\* self._config['optimize'] left as it is
resolveConfig(c, cfg, s) ==
    IF "params" \notin DOMAIN s
    THEN [ ok |-> TRUE, config |-> dictMerge(cfg, DefaultOptimize(c)) ]
    ELSE IF getType(c) \notin DOMAIN s.params
    THEN [ ok |-> FALSE, config |-> cfg ]
    ELSE [ ok     |-> TRUE,
           config |-> dictMerge(s.params[getType(c)],
                                dictMerge(cfg, DefaultOptimize(c))) ]

\* lines 298-300: the check of the dataset is asked for and fails
datasetRejected(c, cfg, ds) ==
    /\ ("checkDataset" \notin DOMAIN cfg \/ cfg.checkDataset = TRUE)
    /\ ~ checkDataset(c, ds)

\* rbm._optParams up to the choice of the algorithm: the exception raised
\* there, or "cd".  The error branch formats its message with the name
\* algorithm, which _optParams does not define.
optParams(cfg) ==
    IF "modVmraEnable" \notin DOMAIN cfg THEN "KeyError"
    ELSE IF cfg.modVmraEnable /\ "modVmraLength" \notin DOMAIN cfg THEN "KeyError"
    ELSE IF Lower(cfg.algorithm) = "cd" THEN "cd"
    ELSE "NameError"

\* _optCd without the break on 'abort': the loop is left after epoch n - 1
loopEndsOnCountOnly(event, ep, n) == ep + 1 >= n

\* _optCd: the loop is left on the event 'abort' and after epoch
\* cfg['updates'] - 1, with cfg['updates'] as read at the entry of the loop
loopEnds(event, ep, n) == event = "abort" \/ ep + 1 >= n

\* _optCd that reports an aborted loop as a failure
optCdResultByEvent(event) == IF event = "abort" THEN "False" ELSE "True"

\* _optCd: return True, whatever the last event was
optCdResult(event) == "True"

\* the call returns value, or raises it
Return(value) ==
    /\ pc' = "idle"
    /\ retVal' = value

\* system.optimizeParams up to the entry of the loop, on the configuration
\* the instance holds at the call
OptimizeCall ==
    /\ pc = "idle"
    /\ \E ds \in Datasets, s \in Schedules(cls) :
        LET res == resolveConfig(cls, config, s)
            cfg == res.config
        IN
        /\ calls' = calls + 1
        /\ schedule' = s
        /\ dataset' = ds
        /\ Runnable(cls, cfg)
        /\ config' = cfg
        /\ IF ~ res.ok
           THEN \* return nemoa.log('error', ...)
                /\ Return(logError)
                /\ run' = NewRun
                /\ UNCHANGED << cls, units, links, loopVars, tracker, store, now >>
           ELSE IF datasetRejected(cls, cfg, ds)
           THEN /\ Return("False")
                /\ run' = NewRun
                /\ UNCHANGED << cls, units, links, loopVars, tracker, store, now >>
           ELSE LET tr  == IF "inspect" \in DOMAIN cfg /\ ~ (cfg.inspect = FALSE)
                           THEN setTestData(trackerNew(cfg), "testdata")
                           ELSE trackerNew(cfg)
                    alg == optParams(cfg)
                IN  /\ tracker' = tr
                    /\ run' = [NewRun EXCEPT !.tracker = TRUE]
                    /\ IF alg # "cd"
                       THEN /\ Return(alg)
                            /\ UNCHANGED loopVars
                       ELSE \* _optCd: for epoch in xrange(cfg['updates'])
                            /\ nUpdates' = cfg.updates
                            /\ epoch' = 0
                            /\ UNCHANGED << data, dTuple >>
                            /\ IF cfg.updates > 0
                               THEN /\ pc' = "getdata"
                                    /\ retVal' = "running"
                               ELSE Return(optCdResult("True"))
                    /\ UNCHANGED << cls, units, links, store, now >>
    /\ UNCHANGED caller

\* A behaviour holds one call of optimizeParams, made on any of the initial
\* states
OptimizeParams ==
    /\ calls = 0
    /\ OptimizeCall

----------------------------------------------------------------------------
(* rbm._optCd: the steps of one epoch *)

\* the fetch made at the end of an interval instead of at its start
OptGetDataAtEnd ==
    /\ pc = "getdata"
    /\ pc' = "sampling"
    /\ IF (epoch + 1) % config.minibatchInterval = 0
       THEN /\ data' \in Batches(dataset)
            /\ run' = [run EXCEPT !.fetches = @ + 1]
       ELSE UNCHANGED << data, run >>
    /\ UNCHANGED << cls, config, units, links, retVal, schedule, dataset,
                    nUpdates, epoch, dTuple, tracker, store, now, calls >>
    /\ UNCHANGED caller

\* if epoch % cfg['minibatchInterval'] == 0: data = self._optGetData(dataset)
OptGetData ==
    /\ pc = "getdata"
    /\ pc' = "sampling"
    /\ IF epoch % config.minibatchInterval = 0
       THEN /\ data' \in Batches(dataset)
            /\ run' = [run EXCEPT !.fetches = @ + 1]
       ELSE UNCHANGED << data, run >>
    /\ UNCHANGED << cls, config, units, links, retVal, schedule, dataset,
                    nUpdates, epoch, dTuple, tracker, store, now, calls >>
    /\ UNCHANGED caller

\* dTuple = self._optCdSampling(data): vData is the batch itself
OptCdSampling ==
    /\ pc = "sampling"
    /\ pc' = "vmra"
    /\ \E m \in Samples(data, units) :
          dTuple' = [ vData |-> data, hData |-> m.hData,
                      vModel |-> m.vModel, hModel |-> m.hModel ]
    /\ run' = [run EXCEPT !.samplings = @ + 1]
    /\ UNCHANGED << cls, config, units, links, retVal, schedule, dataset,
                    nUpdates, epoch, data, tracker, store, now, calls >>
    /\ UNCHANGED caller

\* adapt update rate
OptVmra ==
    /\ pc = "vmra"
    /\ pc' = "update"
    /\ IF /\ config.modVmraEnable
          /\ epoch % config.modVmraInterval = 0
          /\ epoch > config.modVmraWait
       THEN LET r == optVmraUpdate(config, links, store)
            IN  /\ config' = r.config
                /\ store' = r.store
                /\ run' = [run EXCEPT !.adaptions = @ + 1,
                                      !.rateSets = @ + (IF r.adapted THEN 1 ELSE 0)]
       ELSE UNCHANGED << config, store, run >>
    /\ UNCHANGED << cls, units, links, retVal, schedule, dataset, loopVars,
                    tracker, now, calls >>
    /\ UNCHANGED caller

\* self._optCdUpdate(*dTuple)
OptCdUpdate ==
    /\ pc = "update"
    /\ pc' = "trigger"
    /\ LET r == optCdUpdate(cls, config, units, links, dTuple)
       IN  /\ units' = r.units
           /\ links' = r.links
           /\ run' = [run EXCEPT !.cdUpdates = @ + 1, !.computed = r.computed]
    /\ UNCHANGED << cls, config, retVal, schedule, dataset, loopVars, tracker,
                    store, now, calls >>
    /\ UNCHANGED caller

\* event = tracker.trigger(), the break on 'abort', and the end of the loop
\* (return True) after the last epoch
Trigger ==
    /\ pc = "trigger"
    /\ \E c \in Keys, step \in ClockSteps :
        LET t == MinOf(now + step, MaxClock)
            r == trigger(tracker, config, c, t)
        IN  /\ now' = t
            /\ tracker' = r.tracker
            /\ config' = r.config
            /\ run' = [run EXCEPT !.triggers = @ + 1,
                                  !.keys = Append(@, c),
                                  !.events = Append(@, r.event),
                                  !.estimates = @ + (IF r.estimated THEN 1 ELSE 0),
                                  !.evals = @ + r.evals]
            /\ IF loopEnds(r.event, epoch, nUpdates)
               THEN /\ Return(optCdResult(r.event))
                    /\ data' = << >>
                    /\ dTuple' = NoTuple
                    /\ UNCHANGED epoch
               ELSE /\ pc' = "getdata"
                    /\ epoch' = epoch + 1
                    /\ UNCHANGED << retVal, data, dTuple >>
    /\ UNCHANGED << cls, units, links, schedule, dataset, nUpdates, store, calls >>
    /\ UNCHANGED caller

Next ==
    \/ OptimizeParams
    \/ OptGetData
    \/ OptCdSampling
    \/ OptVmra
    \/ OptCdUpdate
    \/ Trigger

Spec == Init /\ [][Next]_vars

----------------------------------------------------------------------------
(* One update cycle on any sampling tuple: the instance stands in epoch 0  *)
(* of a run, after the sampling, with any ignore-list and any choice of    *)
(* the regularizers.                                                       *)

IgnoreLists == { << >>, << "visible" >>, << "hidden" >>, << "links" >>,
                 << "visible", "hidden" >>, << "visible", "links" >>,
                 << "hidden", "links" >>, << "visible", "hidden", "links" >> }

UpdateConfigs ==
    { dictMerge([ algorithm |-> "cd", updates |-> 1, updateRate |-> Fx(1),
                  ignoreUnits |-> ig, modKlEnable |-> kl,
                  selectivityFactor |-> sel ], VmraOff) :
      ig \in IgnoreLists, kl \in BOOLEAN, sel \in {0, Fx(1)} }

RowsV == { << 0, 0 >>, << Fx(1), 0 >>, << 0, Fx(1) >>, << Fx(1), Fx(1) >> }

LevelsH == { 0, 500, Fx(1) }

\* sampling tuples of one sample, and two of two samples
UpdateTuples ==
    { [ vData |-> << vd >>, hData |-> << << hd >> >>,
        vModel |-> << vm >>, hModel |-> << << hm >> >> ] :
      vd \in RowsV, hd \in LevelsH, vm \in RowsV, hm \in LevelsH }
    \cup
    { [ vData |-> DataBinary, hData |-> << << Fx(1) >>, << 500 >> >>,
        vModel |-> Fill(2, 2, 0), hModel |-> Fill(2, 1, 0) ],
      [ vData |-> DataGauss, hData |-> << << 0 >>, << Fx(1) >> >>,
        vModel |-> DataBinary, hModel |-> Fill(2, 1, 500) ] }

InitUpdate ==
    /\ cls \in {"rbm", "grbm"}
    /\ \E user \in UpdateConfigs : config = InitConfig(cls, user)
    /\ \E lvar \in {0, LvarDegenerate} : units = InitUnits(cls, lvar)
    /\ links = InitLinks
    /\ pc = "update"
    /\ retVal = "running"
    /\ schedule = [ name |-> "plain" ]
    /\ dataset = NoDataset
    /\ nUpdates = 1
    /\ epoch = 0
    /\ dTuple \in UpdateTuples
    /\ data = dTuple.vData
    /\ tracker = setTestData(trackerNew(config), "testdata")
    /\ store = << >>
    /\ now = 0
    /\ calls = 1
    /\ run = [NewRun EXCEPT !.tracker = TRUE, !.fetches = 1, !.samplings = 1]
    /\ heap = << >>
    /\ held = << >>
    /\ chain = NoChain

NextUpdate == OptCdUpdate

SpecUpdate == InitUpdate /\ [][NextUpdate]_vars

----------------------------------------------------------------------------
(* The rate controller over the epochs of one run: _optVmraUpdate is called *)
(* in every epoch, and between two calls the rest of the epoch has given    *)
(* the weights any of a few variances.                                      *)

\* the longest window (modVmraLength) and the number of epochs of the run
MaxWindow == 3

MaxVmraCalls == 4

\* weight matrices of variance 0, 0.01, 0.04 and 0.09
WeightChoices == { << << 0 >>, << 0 >> >>,
                   << << 100 >>, << 0 - 100 >> >>,
                   << << 200 >>, << 0 - 200 >> >>,
                   << << 300 >>, << 0 - 300 >> >> }

\* configurations with the rate below, within and above [0.01, 0.5]
VmraConfigs ==
    { [ algorithm       |-> "cd",
        updates         |-> MaxVmraCalls,
        updateRate      |-> rate,
        modVmraEnable   |-> TRUE,
        modVmraLength   |-> len,
        modVmraInterval |-> 1,
        modVmraWait     |-> 0 - 1,
        modVmraFactor   |-> Fx(10),
        modVmraMinRate  |-> 10,
        modVmraMaxRate  |-> 500 ] :
      rate \in {5, 100, Fx(1)}, len \in 1..MaxWindow }

InitVmra ==
    /\ cls = "rbm"
    /\ \E user \in VmraConfigs : config = InitConfig(cls, user)
    /\ units = InitUnits(cls, 0)
    /\ \E w \in WeightChoices : links = [InitLinks EXCEPT !.W = w]
    /\ pc = "vmra"
    /\ retVal = "running"
    /\ schedule = [ name |-> "plain" ]
    /\ dataset = [ name |-> "binary", data |-> DataBinary ]
    /\ nUpdates = MaxVmraCalls
    /\ epoch = 0
    /\ data = DataBinary
    /\ dTuple = NoTuple
    /\ tracker = setTestData(trackerNew(config), "testdata")
    /\ store = << >>
    /\ now = 0
    /\ calls = 1
    /\ run = [NewRun EXCEPT !.tracker = TRUE]
    /\ heap = << >>
    /\ held = << >>
    /\ chain = NoChain

\* the rest of an epoch and the begin of the next: the update has changed the
\* weights
RestOfEpoch ==
    /\ pc = "update"
    /\ epoch + 1 < nUpdates
    /\ pc' = "vmra"
    /\ epoch' = epoch + 1
    /\ \E w \in WeightChoices : links' = [links EXCEPT !.W = w]
    /\ UNCHANGED << cls, config, units, retVal, schedule, dataset, nUpdates,
                    data, dTuple, tracker, store, now, calls, run >>
    /\ UNCHANGED caller

NextVmra == OptVmra \/ RestOfEpoch

SpecVmra == InitVmra /\ [][NextVmra]_vars

----------------------------------------------------------------------------
(* Several runs of one instance: each call of optimizeParams that reaches   *)
(* the loop creates a tracker of its own.  The store is the list the class  *)
(* tracker holds in _store: __init__ and _configure do not assign _store,   *)
(* and write changes the list in place.                                     *)

\* the number of calls of optimizeParams
MaxRuns == 2

\* runs of two epochs with a window of one or two samples
RunsConfigs ==
    { [ algorithm       |-> "cd",
        updates         |-> 2,
        updateRate      |-> rate,
        modVmraEnable   |-> TRUE,
        modVmraLength   |-> len,
        modVmraInterval |-> 1,
        modVmraWait     |-> 0 - 1,
        modVmraFactor   |-> Fx(10),
        modVmraMinRate  |-> 10,
        modVmraMaxRate  |-> 500 ] : rate \in {100, Fx(1)}, len \in 1..2 }

InitRuns ==
    /\ cls = "rbm"
    /\ \E c \in RunsConfigs : config = InitConfig(cls, c)
    /\ units = InitUnits(cls, 0)
    /\ \E w \in WeightChoices : links = [InitLinks EXCEPT !.W = w]
    /\ pc = "vmra"
    /\ retVal = "running"
    /\ schedule = [ name |-> "plain" ]
    /\ dataset = [ name |-> "binary", data |-> DataBinary ]
    /\ nUpdates = config.updates
    /\ epoch = 0
    /\ data = DataBinary
    /\ dTuple = NoTuple
    /\ tracker = setTestData(trackerNew(config), "testdata")
    /\ store = << >>
    /\ now = 0
    /\ calls = 1
    /\ run = [NewRun EXCEPT !.tracker = TRUE]
    /\ heap = << >>
    /\ held = << >>
    /\ chain = NoChain

\* the last epoch of a run is over (return True), and optimizeParams is
\* called again with the same schedule and dataset: it creates its tracker
\* and enters the loop
NextRun ==
    /\ pc = "update"
    /\ epoch + 1 >= nUpdates
    /\ calls < MaxRuns
    /\ calls' = calls + 1
    /\ tracker' = setTestData(trackerNew(config), "testdata")
    /\ run' = [NewRun EXCEPT !.tracker = TRUE]
    /\ nUpdates' = config.updates
    /\ epoch' = 0
    /\ pc' = "vmra"
    /\ UNCHANGED << cls, config, units, links, retVal, schedule, dataset,
                    data, dTuple, store, now >>
    /\ UNCHANGED caller

NextRuns == OptVmra \/ RestOfEpoch \/ NextRun

SpecRuns == InitRuns /\ [][NextRuns]_vars

----------------------------------------------------------------------------
(* Calls of optimizeParams in sequence on one instance: the configuration   *)
(* a call leaves in self._config['optimize'] is the one the next call       *)
(* merges over the defaults.                                                *)

\* instances with the rate adaption on and off; the units and the links
\* are left out of the updates
CallsConfigs ==
    { dictMerge([algorithm |-> "cd", updates |-> MaxUpdates,
                 updateRate |-> 100, inspect |-> FALSE,
                 inspectEstimateTime |-> FALSE,
                 ignoreUnits |-> << "visible", "hidden", "links" >>], vmra) :
      vmra \in {VmraOn, VmraOff} }

InitCalls ==
    /\ cls = "rbm"
    /\ \E user \in CallsConfigs : config = InitConfig(cls, user)
    /\ units = InitUnits(cls, 0)
    /\ links = InitLinks
    /\ pc = "idle"
    /\ retVal = "none"
    /\ schedule = [ name |-> "" ]
    /\ dataset = NoDataset
    /\ nUpdates = 0
    /\ epoch = 0
    /\ data = << >>
    /\ dTuple = NoTuple
    /\ tracker = ClassTracker
    /\ store = << >>
    /\ now = MaxClock
    /\ calls = 0
    /\ run = NewRun
    /\ heap = << >>
    /\ held = << >>
    /\ chain = NoChain

\* the call before returned from the loop on the event 'abort'
Aborted ==
    /\ run.events # << >>
    /\ run.events[Len(run.events)] = "abort"

\* optimizeParams called again after a run that was aborted
OptimizeParamsAgain ==
    /\ calls = 1
    /\ Aborted
    /\ OptimizeCall

NextCalls ==
    \/ OptimizeParams
    \/ OptimizeParamsAgain
    \/ OptGetData
    \/ OptCdSampling
    \/ OptVmra
    \/ OptCdUpdate
    \/ Trigger

SpecCalls == InitCalls /\ [][NextCalls]_vars

----------------------------------------------------------------------------
(* The parameters seen from a caller: getParams hands out structures, the   *)
(* caller writes to them and hands them back to setParams, and updates are  *)
(* applied to the model in between.  A structure is the dictionary          *)
(* {'units': ..., 'links': ...}: its two entries are references, to an      *)
(* object of the heap (an address 1, 2, ...) or to the object the model     *)
(* itself holds (address 0).                                                *)

\* the number of structures a caller holds, and of updates applied
MaxHeld == 2

MaxParamUpdates == 2

\* the address of the object the model holds
Self == 0

\* the unit parameters and the link parameters a structure refers to
unitsAt(ref) == IF ref.units = Self THEN units ELSE heap[ref.units]

linksAt(ref) == IF ref.links = Self THEN links ELSE heap[ref.links]

\* self._params.copy(), as getConfig copies the configuration: a new
\* dictionary whose entries refer to the objects of the model
getParamsByCopy(h, u, l) ==
    [ heap |-> h, ref |-> [ units |-> Self, links |-> Self ] ]

\* copy.deepcopy(self._params): every object the structure reaches is made
\* anew, with the values of now
getParams(h, u, l) ==
    [ heap |-> h \o << u, l >>,
      ref  |-> [ units |-> Len(h) + 1, links |-> Len(h) + 2 ] ]

\* self._checkParams(params), for a structure that holds units and links
checkParams(p) == {"units", "links"} \subseteq DOMAIN p

\* self.units[group].overwrite(params['units'][i]): the group takes the
\* parameters given, and the call returns a true value
overwrite(unit, p) == [ params |-> p, ok |-> TRUE ]

\* the labels of a list as a set
Labels(list) == { list[i] : i \in 1..Len(list) }

\* _setLinkParams: for the first pair of a visible and a hidden unit whose
\* labels are both in params['units'], params['A'][k, l] is read from the
\* top level of params
setLinkParams(l, u, p) ==
    LET hit == /\ Labels(u.visible.label) \cap Labels(p.units.visible.label) # {}
               /\ Labels(u.hidden.label) \cap Labels(p.units.hidden.label) # {}
    IN  IF ~ hit THEN [ links |-> l, raised |-> "none" ]
        ELSE IF ~ ("A" \in DOMAIN p /\ "W" \in DOMAIN p)
        THEN [ links |-> l, raised |-> "KeyError" ]
        ELSE [ links |-> [l EXCEPT !.A = p.A, !.W = p.W], raised |-> "none" ]

\* rbm._setParams: the three setters joined by 'and'
setParamsOfRbm(u, l, p) ==
    LET v  == overwrite(u.visible, p.units.visible)
        u1 == [u EXCEPT !.visible = v.params]
        h  == overwrite(u.hidden, p.units.hidden)
        u2 == [u1 EXCEPT !.hidden = h.params]
    IN  IF ~ v.ok THEN [ units |-> u1, links |-> l, raised |-> "none" ]
        ELSE IF ~ h.ok THEN [ units |-> u2, links |-> l, raised |-> "none" ]
        ELSE LET r == setLinkParams(l, u2, p)
             IN  [ units |-> u2, links |-> r.links, raised |-> r.raised ]

\* setParams(params) with update = True
setParams(u, l, p) ==
    IF ~ checkParams(p)
    THEN [ units |-> u, links |-> l, ret |-> logError ]
    ELSE LET r == setParamsOfRbm(u, l, p)
         IN  [ units |-> r.units, links |-> r.links,
               ret   |-> IF r.raised = "none" THEN "True" ELSE r.raised ]

\* what a caller writes to the weights and to the hidden bias of a structure
CallerWeights == { << << 0 >>, << 0 >> >>, << << 300 >>, << 0 - 300 >> >> }

CallerBias == { << << 500 >> >> }

\* the updates of one epoch
EpochUpdates == [ W |-> << << 100 >>, << 100 >> >>, bias |-> << << 100 >> >> ]

InitParams ==
    /\ cls = "rbm"
    /\ config = InitConfig(cls, VmraOff)
    /\ units = InitUnits(cls, 0)
    /\ \E w \in WeightChoices : links = [InitLinks EXCEPT !.W = w]
    /\ pc = "idle"
    /\ retVal = "none"
    /\ schedule = [ name |-> "plain" ]
    /\ dataset = NoDataset
    /\ nUpdates = 0
    /\ epoch = 0
    /\ data = << >>
    /\ dTuple = NoTuple
    /\ tracker = trackerNew(config)
    /\ store = << >>
    /\ now = 0
    /\ calls = 0
    /\ run = NewRun
    /\ heap = << >>
    /\ held = << >>
    /\ chain = NoChain

\* params = system.getParams()
GetParams ==
    /\ pc = "idle"
    /\ Len(held) < MaxHeld
    /\ LET r == getParams(heap, units, links)
       IN  /\ heap' = r.heap
           /\ held' = Append(held, r.ref)
    /\ UNCHANGED << cls, config, units, links, pc, retVal, schedule, dataset,
                    loopVars, tracker, store, now, calls, run, chain >>

\* params['links'][(0, 1)]['W'][:] = w, by the caller
CallerWriteLinks ==
    /\ pc = "idle"
    /\ \E i \in 1..Len(held), w \in CallerWeights :
        LET a == held[i].links
        IN  IF a = Self
            THEN /\ links' = [links EXCEPT !.W = w]
                 /\ UNCHANGED heap
            ELSE /\ heap' = [heap EXCEPT ![a].W = w]
                 /\ UNCHANGED links
    /\ UNCHANGED << cls, config, units, pc, retVal, schedule, dataset,
                    loopVars, tracker, store, now, calls, run, held, chain >>

\* params['units'][1]['bias'][:] = b, by the caller
CallerWriteUnits ==
    /\ pc = "idle"
    /\ \E i \in 1..Len(held), b \in CallerBias :
        LET a == held[i].units
        IN  IF a = Self
            THEN /\ units' = [units EXCEPT !.hidden.bias = b]
                 /\ UNCHANGED heap
            ELSE /\ heap' = [heap EXCEPT ![a].hidden.bias = b]
                 /\ UNCHANGED units
    /\ UNCHANGED << cls, config, links, pc, retVal, schedule, dataset,
                    loopVars, tracker, store, now, calls, run, held, chain >>

\* the updates of an epoch applied to the model: units[...].update and
\* _updateLinks, which change the objects of the model in place
ApplyUpdates ==
    /\ pc = "idle"
    /\ run.cdUpdates < MaxParamUpdates
    /\ units' = [units EXCEPT !.hidden = unitUpdate(@, EpochUpdates)]
    /\ links' = updateLinks(links, EpochUpdates)
    /\ run' = [run EXCEPT !.cdUpdates = @ + 1]
    /\ UNCHANGED << cls, config, pc, retVal, schedule, dataset, loopVars,
                    tracker, store, now, calls, heap, held, chain >>

\* system.setParams(params) with the i-th structure the caller holds
SetParamsWith(i) ==
    /\ pc = "idle"
    /\ i \in 1..Len(held)
    /\ LET p == [ units |-> unitsAt(held[i]), links |-> linksAt(held[i]) ]
           r == setParams(units, links, p)
       IN  /\ units' = r.units
           /\ links' = r.links
           /\ retVal' = r.ret
    /\ UNCHANGED << cls, config, pc, schedule, dataset, loopVars, tracker,
                    store, now, calls, run, heap, held, chain >>

SetParams == \E i \in 1..MaxHeld : SetParamsWith(i)

NextParams ==
    \/ GetParams
    \/ CallerWriteLinks
    \/ CallerWriteUnits
    \/ ApplyUpdates
    \/ SetParams

SpecParams == InitParams /\ [][NextParams]_vars

----------------------------------------------------------------------------
(* The general path of _optCdSampling: m chains of k sampling steps each.   *)
(* The units evaluate an expectation as a function of their input, and a    *)
(* sample by comparing the expectation with a random number.                *)

\* the largest updateCdkSteps (k) and updateCdkIterations (m)
MaxSteps == 2

MaxChains == 2

\* the random numbers of the draws
Thresholds == {200, 600, 800}

\* the expectation of one layer for the values x of the other: increasing in
\* x, between 0 and 1
evalUnitExpect(u, x, mapping) ==
    IF mapping = << "visible", "hidden" >>
    THEN [i \in 1..Rows(x) |->
            [j \in 1..Len(u.hidden.label) |-> DivN(SumSeq(x[i]), Cols(x))]]
    ELSE [i \in 1..Rows(x) |->
            [j \in 1..Len(u.visible.label) |->
                250 + DivN(SumSeq(x[i]), 2 * Cols(x))]]

\* a binary sample of the layer with expectation x: a unit fires if its
\* expectation exceeds the random number
sampleOf(x, rnd) ==
    [i \in 1..Rows(x) |-> [j \in 1..Cols(x) |->
        IF x[i][j] > rnd THEN Fx(1) ELSE 0]]

\* self._evalUnitSamples(x, mapping, expectLast): a sample of the first
\* layer of the mapping, and for a mapping of two layers with expectLast the
\* expectation of the second layer for that sample
evalUnitSamples(u, x, mapping, rnd) ==
    IF Len(mapping) = 1 THEN sampleOf(x, rnd)
    ELSE evalUnitExpect(u, sampleOf(x, rnd), mapping)

\* the step j of a chain, with the step 0 of the first chain taken for the
\* step 0 of every chain: a later chain goes on from the hExpect the chain
\* before has left
cdStepContinued(u, hData, k, j, prev, rnd1, rnd2) ==
    LET from    == IF j = 0 /\ ~ ("hExpect" \in DOMAIN prev) THEN hData
                   ELSE prev.hExpect
        hSample == evalUnitSamples(u, from, << "hidden" >>, rnd1)
        vExpect == evalUnitExpect(u, hSample, << "hidden", "visible" >>)
        hExpect == IF j + 1 = k
                   THEN evalUnitExpect(u, vExpect, << "visible", "hidden" >>)
                   ELSE evalUnitSamples(u, vExpect, << "visible", "hidden" >>, rnd2)
    IN  [ vExpect |-> vExpect, hExpect |-> hExpect,
          first |-> IF j = 0 THEN hSample ELSE prev.first ]

\* the step j of a chain (the body of 'for j in range(k)'); prev holds the
\* locals vExpect and hExpect as the step before left them, and first is
\* the hSample of step 0
cdStep(u, hData, k, j, prev, rnd1, rnd2) ==
    LET from    == IF j = 0 THEN hData ELSE prev.hExpect
        hSample == evalUnitSamples(u, from, << "hidden" >>, rnd1)
        vExpect == evalUnitExpect(u, hSample, << "hidden", "visible" >>)
        hExpect == IF j + 1 = k
                   THEN evalUnitExpect(u, vExpect, << "visible", "hidden" >>)
                   ELSE evalUnitSamples(u, vExpect, << "visible", "hidden" >>, rnd2)
    IN  [ vExpect |-> vExpect, hExpect |-> hExpect,
          first |-> IF j = 0 THEN hSample ELSE prev.first ]

SamplingConfigs ==
    { dictMerge([ algorithm |-> "cd", updates |-> 1,
                  updateCdkSteps |-> k, updateCdkIterations |-> m ], VmraOff) :
      k \in 1..MaxSteps, m \in 1..MaxChains }

InitSampling ==
    /\ cls = "rbm"
    /\ \E user \in SamplingConfigs : config = InitConfig(cls, user)
    /\ units = InitUnits(cls, 0)
    /\ links = InitLinks
    /\ pc = "sampling"
    /\ retVal = "running"
    /\ schedule = [ name |-> "plain" ]
    /\ dataset = NoDataset
    /\ nUpdates = 1
    /\ epoch = 0
    /\ data \in { << row >> : row \in RowsV } \cup { DataBinary }
    /\ dTuple = NoTuple
    /\ tracker = trackerNew(config)
    /\ store = << >>
    /\ now = 0
    /\ calls = 1
    /\ run = [NewRun EXCEPT !.tracker = TRUE, !.fetches = 1]
    /\ heap = << >>
    /\ held = << >>
    /\ chain = NoChain

\* _optCdSampling up to its loop: hData, and for k = 1 and m = 1 the return
\* of the short path
OptCdSamplingCall ==
    /\ pc = "sampling"
    /\ chain = NoChain
    /\ LET k     == config.updateCdkSteps
           m     == config.updateCdkIterations
           hData == evalUnitExpect(units, data, << "visible", "hidden" >>)
       IN  IF k = 1 /\ m = 1
           THEN \E rnd \in Thresholds :
                   LET vModel == evalUnitSamples(units, hData,
                                     << "hidden", "visible" >>, rnd)
                       hModel == evalUnitExpect(units, vModel,
                                     << "visible", "hidden" >>)
                   IN  /\ dTuple' = [ vData |-> data, hData |-> hData,
                                      vModel |-> vModel, hModel |-> hModel ]
                       /\ pc' = "vmra"
                       /\ run' = [run EXCEPT !.samplings = @ + 1]
                       /\ UNCHANGED chain
           ELSE /\ chain' = [ i      |-> 0,
                              j      |-> 0,
                              hData  |-> hData,
                              vModel |-> Fill(Rows(data), Cols(data), 0),
                              hModel |-> Fill(Rows(hData), Cols(hData), 0),
                              locals |-> [ i |-> 0 ],
                              finals |-> << >> ]
                /\ pc' = "chains"
                /\ UNCHANGED << dTuple, run >>
    /\ UNCHANGED << cls, config, units, links, retVal, schedule, dataset,
                    nUpdates, epoch, data, tracker, store, now, calls, heap,
                    held >>

\* one pass of 'for j in range(k)'; the last step of a chain is followed by
\* the two sums, and the last step of the last chain by the return of the
\* tuple
OptCdSamplingStep ==
    /\ pc = "chains"
    /\ LET k == config.updateCdkSteps
           m == config.updateCdkIterations
       IN  \E rnd1 \in Thresholds, rnd2 \in Thresholds :
              LET end    == cdStep(units, chain.hData, k, chain.j, chain.locals,
                                   rnd1, rnd2)
                  vModel == MatAdd(chain.vModel, MatDivN(end.vExpect, m))
                  hModel == MatAdd(chain.hModel, MatDivN(end.hExpect, m))
              IN  IF chain.j + 1 < k
                  THEN /\ chain' = [chain EXCEPT !.j = @ + 1, !.locals = end]
                       /\ UNCHANGED << dTuple, pc, run >>
                  ELSE /\ chain' = [chain EXCEPT !.i = @ + 1,
                                                 !.j = 0,
                                                 !.vModel = vModel,
                                                 !.hModel = hModel,
                                                 !.locals = end,
                                                 !.finals = Append(@, end)]
                       /\ IF chain.i + 1 = m
                          THEN /\ dTuple' = [ vData  |-> data,
                                              hData  |-> chain.hData,
                                              vModel |-> vModel,
                                              hModel |-> hModel ]
                               /\ pc' = "vmra"
                               /\ run' = [run EXCEPT !.samplings = @ + 1]
                          ELSE UNCHANGED << dTuple, pc, run >>
    /\ UNCHANGED << cls, config, units, links, retVal, schedule, dataset,
                    nUpdates, epoch, data, tracker, store, now, calls, heap,
                    held >>

NextSampling == OptCdSamplingCall \/ OptCdSamplingStep

SpecSampling == InitSampling /\ [][NextSampling]_vars

----------------------------------------------------------------------------
(* A tracker by itself: any sequence of keys and clock values over the      *)
(* calls of trigger of one tracker instance.                                *)

\* the number of calls of trigger
MaxTriggers == 4

TrackerConfigs ==
    { dictMerge([ algorithm |-> "cd", updates |-> n, inspect |-> insp,
                  inspectEstimateTime |-> est ], VmraOff) :
      n \in 1..MaxUpdates, insp \in BOOLEAN, est \in BOOLEAN }

InitTracker ==
    /\ cls \in {"rbm", "grbm"}
    /\ \E user \in TrackerConfigs : config = InitConfig(cls, user)
    /\ units = InitUnits(cls, 0)
    /\ links = InitLinks
    /\ pc = "trigger"
    /\ retVal = "running"
    /\ schedule = [ name |-> "plain" ]
    /\ dataset = NoDataset
    /\ nUpdates = config.updates
    /\ epoch = 0
    /\ data = << >>
    /\ dTuple = NoTuple
    /\ \E d \in {"None", "testdata"} : tracker = setTestData(trackerNew(config), d)
    /\ store = << >>
    /\ now = 0
    /\ calls = 1
    /\ run = [NewRun EXCEPT !.tracker = TRUE]
    /\ heap = << >>
    /\ held = << >>
    /\ chain = NoChain

\* tracker.trigger()
TriggerCall ==
    /\ pc = "trigger"
    /\ run.triggers < MaxTriggers
    /\ \E c \in Keys, step \in ClockSteps :
        LET t == MinOf(now + step, MaxClock)
            r == trigger(tracker, config, c, t)
        IN  /\ now' = t
            /\ tracker' = r.tracker
            /\ config' = r.config
            /\ run' = [run EXCEPT !.triggers = @ + 1,
                                  !.keys = Append(@, c),
                                  !.events = Append(@, r.event),
                                  !.estimates = @ + (IF r.estimated THEN 1 ELSE 0),
                                  !.evals = @ + r.evals]
    /\ UNCHANGED << cls, units, links, pc, retVal, schedule, dataset, loopVars,
                    store, calls, heap, held, chain >>

NextTracker == TriggerCall

SpecTracker == InitTracker /\ [][NextTracker]_vars

----------------------------------------------------------------------------
(* The links seen from a caller: unlinkUnit, removeLinks and getLinks on a  *)
(* system of two visible and two hidden units.  A list of links is given    *)
(* as the set of its pairs.                                                 *)

\* list.index(x): the first place of x in the list
IndexOf(list, x) ==
    CHOOSE i \in 1..Len(list) : list[i] = x /\ \A j \in 1..(i - 1) : list[j] # x

\* _unlinkUnit with the column cleared for a visible unit and the row for a
\* hidden one
unlinkUnitAcross(u, l, unit) ==
    IF In(unit, u.visible.label)
    THEN LET i == IndexOf(u.visible.label, unit)
         IN  [ links |-> [l EXCEPT !.A = [r \in 1..Rows(l.A) |->
                             [c \in 1..Cols(l.A) |->
                                 IF c = i THEN FALSE ELSE l.A[r][c]]]],
               ret   |-> "True" ]
    ELSE IF In(unit, u.hidden.label)
    THEN LET i == IndexOf(u.hidden.label, unit)
         IN  [ links |-> [l EXCEPT !.A = [r \in 1..Rows(l.A) |->
                             [c \in 1..Cols(l.A) |->
                                 IF r = i THEN FALSE ELSE l.A[r][c]]]],
               ret   |-> "True" ]
    ELSE [ links |-> l, ret |-> "False" ]

\* rbm._unlinkUnit: A[i, :] = False for a visible unit, A[:, i] = False for
\* a hidden unit
unlinkUnit(u, l, unit) ==
    IF In(unit, u.visible.label)
    THEN LET i == IndexOf(u.visible.label, unit)
         IN  [ links |-> [l EXCEPT !.A = [r \in 1..Rows(l.A) |->
                             [c \in 1..Cols(l.A) |->
                                 IF r = i THEN FALSE ELSE l.A[r][c]]]],
               ret   |-> "True" ]
    ELSE IF In(unit, u.hidden.label)
    THEN LET i == IndexOf(u.hidden.label, unit)
         IN  [ links |-> [l EXCEPT !.A = [r \in 1..Rows(l.A) |->
                             [c \in 1..Cols(l.A) |->
                                 IF c = i THEN FALSE ELSE l.A[r][c]]]],
               ret   |-> "True" ]
    ELSE [ links |-> l, ret |-> "False" ]

\* rbm._getLinksFromConfig: the pair (v, h) is taken if 'A' is no key of
\* self._params, or if A[i, j] is set; self._params is the dictionary with
\* the keys 'units' and 'links'
getLinksFromConfig(u, l) ==
    LET p == [ units |-> u, links |-> l ]
    IN  { << u.visible.label[i], u.hidden.label[j] >> :
            << i, j >> \in { q \in (1..Len(u.visible.label)) \X (1..Len(u.hidden.label)) :
                               \/ "A" \notin DOMAIN p
                               \/ l.A[q[1]][q[2]] } }

\* self._checkUnitParams(self._params), for a system whose units are set
checkUnitParams(p) == "units" \in DOMAIN p

\* rbm._setLinks: a new adjacency matrix with A[i, j] set for the pairs of
\* the list, in either orientation
setLinksOfRbm(u, l, list) ==
    IF ~ checkUnitParams([ units |-> u, links |-> l ])
    THEN [ links |-> l, ret |-> "False" ]
    ELSE [ links |-> [l EXCEPT !.A =
                        [i \in 1..Len(u.visible.label) |->
                            [j \in 1..Len(u.hidden.label) |->
                                \/ << u.visible.label[i], u.hidden.label[j] >> \in list
                                \/ << u.hidden.label[j], u.visible.label[i] >> \in list]]],
           ret   |-> "True" ]

\* rbm._removeLinks: the links of the list are taken from the current links
\* in either orientation, and the rest is set
removeLinks(u, l, list) ==
    IF ~ checkParams([ units |-> u, links |-> l ])
    THEN [ links |-> l, ret |-> "False" ]
    ELSE LET curLinks == getLinksFromConfig(u, l)
             rest     == { c \in curLinks :
                             \A k \in list : c # k /\ c # << k[2], k[1] >> }
         IN  setLinksOfRbm(u, l, rest)

\* the units and links of the system after construction
LinkUnits ==
    [ visible |-> [ label |-> << "v1", "v2" >>, bias |-> << << 0, 0 >> >> ],
      hidden  |-> [ label |-> << "h1", "h2" >>, bias |-> << << 0, 0 >> >> ] ]

LinkWeights == { << << 100, 0 - 200 >>, << 300, 0 >> >>, Fill(2, 2, 0), Fill(2, 2, 500) }

\* the labels and the lists of links a caller passes
LinkLabels == { "v1", "v2", "h1", "h2", "x" }

LinkLists == { {}, { << "v1", "h1" >> }, { << "h2", "v2" >> },
               { << "v1", "h2" >>, << "h1", "v2" >> }, { << "x", "h1" >> } }

InitLinkCalls ==
    /\ cls = "rbm"
    /\ config = InitConfig(cls, VmraOff)
    /\ units = LinkUnits
    /\ \E w \in LinkWeights : links = [ A |-> Fill(2, 2, TRUE), W |-> w ]
    /\ pc = "idle"
    /\ retVal = "none"
    /\ schedule = [ name |-> "plain" ]
    /\ dataset = NoDataset
    /\ nUpdates = 0
    /\ epoch = 0
    /\ data = << >>
    /\ dTuple = NoTuple
    /\ tracker = trackerNew(config)
    /\ store = << >>
    /\ now = 0
    /\ calls = 0
    /\ run = NewRun
    /\ heap = << >>
    /\ held = << >>
    /\ chain = NoChain

\* system.unlinkUnit(unit)
UnlinkUnitOf(unit) ==
    /\ pc = "idle"
    /\ LET r == unlinkUnit(units, links, unit)
       IN  /\ links' = r.links
           /\ retVal' = r.ret
    /\ UNCHANGED << cls, config, units, pc, schedule, dataset, loopVars,
                    tracker, store, now, calls, run, heap, held, chain >>

UnlinkUnit == \E unit \in LinkLabels : UnlinkUnitOf(unit)

\* system.removeLinks(list)
RemoveLinksOf(list) ==
    /\ pc = "idle"
    /\ LET r == removeLinks(units, links, list)
       IN  /\ links' = r.links
           /\ retVal' = r.ret
    /\ UNCHANGED << cls, config, units, pc, schedule, dataset, loopVars,
                    tracker, store, now, calls, run, heap, held, chain >>

RemoveLinks == \E list \in LinkLists : RemoveLinksOf(list)

\* system.getLinks(): the caller holds the list returned last
GetLinks ==
    /\ pc = "idle"
    /\ held' = << getLinksFromConfig(units, links) >>
    /\ UNCHANGED << cls, config, units, links, pc, retVal, schedule, dataset,
                    loopVars, tracker, store, now, calls, run, heap, chain >>

NextLinkCalls == UnlinkUnit \/ RemoveLinks \/ GetLinks

SpecLinks == InitLinkCalls /\ [][NextLinkCalls]_vars

----------------------------------------------------------------------------
(* The same program with the scheduling of sequential code: a call that    *)
(* has begun takes its next step, whichever of the steps of Next that is.  *)

\* the positions of a call
PcValues == { "idle", "getdata", "sampling", "vmra", "update", "trigger" }

\* the control of a running call moves on
Proceed == pc # "idle" /\ pc' \in PcValues /\ pc' # pc

FairSpec == Spec /\ WF_pc(Proceed)

----------------------------------------------------------------------------
(* Properties *)

\* the index of the first 'q' among the characters read, 0 if there is none
FirstAbort(keys) ==
    IF \E i \in 1..Len(keys) : keys[i] = "q"
    THEN CHOOSE i \in 1..Len(keys) :
            /\ keys[i] = "q"
            /\ \A j \in 1..(i - 1) : keys[j] # "q"
    ELSE 0

\* C1: for every parameter class in ignoreUnits, one call of _optCdUpdate
\* (with the sparsity and the selectivity update) leaves the parameters of
\* the class as they were and computes no delta for it, whatever the
\* sampling tuple and the other fields of the configuration are.
IgnoreListFrame ==
    [][ (pc = "update" /\ pc' = "trigger") =>
          /\ In("visible", config.ignoreUnits) =>
                /\ units'.visible = units.visible
                /\ "deltaV" \notin run'.computed
          /\ In("hidden", config.ignoreUnits) =>
                /\ units'.hidden = units.hidden
                /\ run'.computed \cap
                     {"deltaH", "klDeltaH", "selectivityDeltaH"} = {}
          /\ In("links", config.ignoreUnits) =>
                /\ links' = links
                /\ "deltaL" \notin run'.computed ]_vars

\* an update cycle with 'hidden' ignored and both regularizers switched on
\* has run: the hidden units are as constructed, the visible units are not
IgnoreListFrameWitness ==
    /\ pc = "trigger"
    /\ run.cdUpdates = 1
    /\ In("hidden", config.ignoreUnits)
    /\ config.modKlEnable
    /\ config.selectivityFactor > 0
    /\ units.hidden = InitUnits(cls, 0).hidden
    /\ units.visible.bias # InitUnits(cls, 0).visible.bias
    /\ links # InitLinks

\* C2: if the k-th call of trigger() reads 'q', then after the call the abort
\* flag is set, cfg['updates'] is k, which is the epoch of the tracker at
\* that call, and the call has returned 'abort'.
AbortOnKthTrigger ==
    [][ (pc = "trigger" /\ run'.triggers = run.triggers + 1
                        /\ run'.keys[run'.triggers] = "q") =>
          /\ tracker'.state.abort = TRUE
          /\ config'.updates = run'.triggers
          /\ tracker'.state.epoch = run'.triggers
          /\ run'.events[run'.triggers] = "abort" ]_vars

\* 'q' was read on the second trigger of a run configured for more updates
AbortOnKthTriggerWitness ==
    /\ run.triggers = 2
    /\ run.keys = << "", "q" >>
    /\ nUpdates > 2
    /\ config.updates = 2
    /\ tracker.state.abort
    /\ run.events = << "True", "abort" >>

\* C3: after N calls of trigger() on a new tracker, none of which read 'q',
\* the epoch of the tracker is N, and none of the calls returned 'abort';
\* before the first call the tracker holds no state.
EpochCountsTriggers ==
    /\ run.tracker /\ run.triggers = 0 => DOMAIN tracker.state = {}
    /\ (run.triggers >= 1 /\ FirstAbort(run.keys) = 0) =>
          /\ tracker.state.epoch = run.triggers
          /\ tracker.state.abort = FALSE
          /\ \A i \in 1..run.triggers : run.events[i] = "True"

\* the tracker was triggered MaxUpdates times and no 'q' was read
EpochCountsTriggersWitness ==
    /\ run.triggers = MaxUpdates
    /\ MaxUpdates >= 2
    /\ FirstAbort(run.keys) = 0
    /\ tracker.state.epoch = MaxUpdates

\* the number of cycles of a loop entered with U = nUpdates, given the
\* characters read so far
CyclesDue(U, keys) ==
    IF FirstAbort(keys) = 0 THEN U ELSE MinOf(U, FirstAbort(keys))

\* C4: the epoch loop terminates; with U the update count at its entry and
\* 'q' first read on the k-th trigger (k <= U) or never, the loop has made
\* min(U, k) samplings, as many updates and as many triggers when it returns,
\* and nothing is sampled or updated after the trigger that returned 'abort'.
EpochLoopTerminates ==
    /\ [](run.triggers <= run.cdUpdates /\ run.cdUpdates <= run.samplings
            /\ run.samplings <= run.triggers + 1)
    /\ []((pc = "idle" /\ retVal = "True") =>
            /\ run.samplings = CyclesDue(nUpdates, run.keys)
            /\ run.cdUpdates = CyclesDue(nUpdates, run.keys)
            /\ run.triggers  = CyclesDue(nUpdates, run.keys))
    /\ [](FirstAbort(run.keys) # 0 =>
            /\ pc = "idle"
            /\ run.samplings = FirstAbort(run.keys)
            /\ run.cdUpdates = FirstAbort(run.keys)
            /\ run.triggers  = FirstAbort(run.keys))
    /\ ((pc # "idle") ~> (pc = "idle" /\ retVal = "True"))

\* a loop entered for more than one update has returned after one cycle
EpochLoopTerminatesWitness ==
    /\ pc = "idle"
    /\ retVal = "True"
    /\ nUpdates > 1
    /\ FirstAbort(run.keys) = 1
    /\ run.samplings = 1
    /\ run.cdUpdates = 1
    /\ run.triggers = 1

\* C5: a run ended by 'q' returns True, as a run does that has made all its
\* updates: the call never returns False after an abort.
AbortReturnsTrue ==
    (pc = "idle" /\ run.triggers >= 1) => retVal = "True"

\* a run has returned True after an abort before its last update
AbortReturnsTrueWitness ==
    /\ pc = "idle"
    /\ run.triggers >= 1
    /\ run.triggers < nUpdates
    /\ run.events[run.triggers] = "abort"
    /\ retVal = "True"

\* C6: when the resolved configuration asks for the check of the dataset
\* (checkDataset absent or True) and the dataset fails the check of the class
\* (not binary for rbm, not gauss normalized for grbm), optimizeParams
\* returns False, creates no tracker, runs no epoch and leaves the parameters
\* of the units and the links (bias, lvar, W, A) as they were.
RejectedDatasetFails ==
    [][ (/\ pc = "idle"
         /\ calls' = calls + 1
         /\ ~ scheduleExcludes(cls, schedule')
         /\ ("checkDataset" \notin DOMAIN config' \/ config'.checkDataset = TRUE)
         /\ IF cls = "grbm" THEN outOfGauss(dataset'.data)
                            ELSE ~ binary(dataset'.data)) =>
          /\ pc' = "idle"
          /\ retVal' = "False"
          /\ run' = NewRun
          /\ tracker' = tracker
          /\ units' = units
          /\ links' = links ]_vars

\* a grbm was given data that is not gauss normalized, and the call has
\* returned False without a tracker
RejectedDatasetFailsWitness ==
    /\ pc = "idle"
    /\ calls = 1
    /\ cls = "grbm"
    /\ ~ scheduleExcludes(cls, schedule)
    /\ config.checkDataset = TRUE
    /\ dataset # NoDataset
    /\ outOfGauss(dataset.data)
    /\ retVal = "False"
    /\ run = NewRun
    /\ tracker = ClassTracker

\* some delta the update cycle computes from (c, cfg, u, l, t) has an entry
\* that is not finite
deltasNonFinite(c, cfg, u, l, t) ==
    \/ /\ ~ In("visible", cfg.ignoreUnits)
       /\ \E k \in DOMAIN optCdDeltaV(c, cfg, u, l, t) :
             ~ MatFinite(optCdDeltaV(c, cfg, u, l, t)[k])
    \/ /\ ~ In("hidden", cfg.ignoreUnits)
       /\ ~ MatFinite(optCdDeltaH(c, cfg, u, l, t).bias)
    \/ /\ ~ In("links", cfg.ignoreUnits)
       /\ ~ MatFinite(optCdDeltaL(c, cfg, u, l, t).W)

\* bias, lvar and W hold finite numbers only
paramsFinite(u, l) ==
    /\ \A g \in DOMAIN u : \A k \in DOMAIN u[g] \cap {"bias", "lvar"} :
          MatFinite(u[g][k])
    /\ MatFinite(l.W)

\* C7: if the deltas an update cycle computes are not finite, they are not
\* applied: bias, lvar and W after the cycle are what they were before it,
\* the loop goes on, and no update makes a parameter non-finite.
NonFiniteDeltasDiscarded ==
    [][ (pc = "update" /\ pc' = "trigger") =>
          /\ deltasNonFinite(cls, config, units, links, dTuple) =>
                (units' = units /\ links' = links)
          /\ paramsFinite(units, links) => paramsFinite(units', links') ]_vars

\* C8: if the schedule has a 'params' section without an entry for the type
\* of the system, optimizeParams returns what the error log returns (False),
\* runs no epoch and leaves the optimize configuration and the parameters
\* as they were.
MissingScheduleEntryFails ==
    [][ (/\ pc = "idle"
         /\ calls' = calls + 1
         /\ "params" \in DOMAIN schedule'
         /\ getType(cls) \notin DOMAIN schedule'.params) =>
          /\ pc' = "idle"
          /\ retVal' = "False"
          /\ config' = config
          /\ units' = units
          /\ links' = links
          /\ run' = NewRun
          /\ tracker' = tracker ]_vars

\* a call with a schedule for another type has returned False
MissingScheduleEntryFailsWitness ==
    /\ pc = "idle"
    /\ calls = 1
    /\ "params" \in DOMAIN schedule
    /\ getType(cls) \notin DOMAIN schedule.params
    /\ retVal = "False"
    /\ run = NewRun

\* the entry of key k by precedence: the schedule's, else the instance's,
\* else the default
Effective(k, sched, inst, def) ==
    IF k \in DOMAIN sched THEN sched[k]
    ELSE IF k \in DOMAIN inst THEN inst[k]
    ELSE def[k]

\* d[k] if d has the key, else the empty dictionary
SubDict(d, k) == IF k \in DOMAIN d THEN d[k] ELSE EmptyDict

\* the overrides a schedule holds for the type of class c
ScheduleEntry(c, s) ==
    IF "params" \in DOMAIN s THEN s.params[getType(c)] ELSE EmptyDict

\* C9: the optimize configuration a call resolves is the right-merge of the
\* defaults, the configuration of the instance and the overrides of the
\* schedule: it has the keys of the three, and under every key (and, for an
\* entry that is a dictionary, under every key of that dictionary) the value
\* of the schedule if it has one, else that of the instance if it has one,
\* else the default of the class.
EffectiveConfigIsRightMerge ==
    [][ (pc = "idle" /\ calls' = calls + 1
                     /\ ~ scheduleExcludes(cls, schedule')) =>
          LET sched == ScheduleEntry(cls, schedule')
              inst  == config
              def   == DefaultOptimize(cls)
              keys  == DOMAIN sched \cup DOMAIN inst \cup DOMAIN def
          IN  /\ DOMAIN config' = keys
              /\ \A k \in keys \ DictKeys :
                    config'[k] = Effective(k, sched, inst, def)
              /\ \A k \in keys \cap DictKeys :
                    /\ DOMAIN config'[k] =
                          DOMAIN SubDict(sched, k) \cup DOMAIN SubDict(inst, k)
                             \cup DOMAIN SubDict(def, k)
                    /\ \A j \in DOMAIN config'[k] :
                          config'[k][j] = Effective(j, SubDict(sched, k),
                                              SubDict(inst, k), SubDict(def, k))
      ]_vars

\* a call has resolved a configuration in which the schedule overrides the
\* instance (updates, extra.b), the instance the default (updateRate,
\* extra.a), and the default stands elsewhere (minibatchInterval)
EffectiveConfigIsRightMergeWitness ==
    /\ calls = 1
    /\ schedule.name = "short"
    /\ config.updates = 1
    /\ nUpdates = 1
    /\ "extra" \in DOMAIN config
    /\ config.extra = [a |-> 1, b |-> 3, c |-> 4]
    /\ config.updateRate = Fx(1)
    /\ config.updateRate # DefaultOptimize(cls).updateRate
    /\ config.minibatchInterval = DefaultOptimize(cls).minibatchInterval

\* C10: if the resolved algorithm is not 'cd' (in any case of the letters),
\* as the default 'vrcd' of rbm is not, optimizeParams runs no epoch, leaves
\* the parameters as they were and returns False; it raises no exception.
UnsupportedAlgorithmFails ==
    [][ (/\ pc = "idle"
         /\ calls' = calls + 1
         /\ ~ scheduleExcludes(cls, schedule')
         /\ Lower(config'.algorithm) # "cd") =>
          /\ pc' = "idle"
          /\ retVal' = "False"
          /\ units' = units
          /\ links' = links
          /\ run'.samplings = 0
          /\ run'.cdUpdates = 0
          /\ run'.triggers = 0 ]_vars

\* the variance samples w (newest first) are strictly decreasing over time
DecreasingOverTime(w) == \A i \in 1..(Len(w) - 1) : w[i] < w[i + 1]

\* the call of _optVmraUpdate this step makes has set the rate
AdaptionStep == pc = "vmra" /\ run'.rateSets = run.rateSets + 1

\* C11 as claimed: when the rate is adapted from a history of variance
\* samples strictly decreasing over time, the new update rate is at most the
\* rate before the adaption; and after any adaption the rate lies in
\* [modVmraMinRate, modVmraMaxRate].
RateFallsWithVariance ==
    [][ AdaptionStep =>
          /\ DecreasingOverTime(trackerRead(store').wVar) =>
                config'.updateRate <= config.updateRate
          /\ config.modVmraMinRate <= config'.updateRate
          /\ config'.updateRate <= config.modVmraMaxRate ]_vars

\* C11 as amended: with a gain modVmraFactor >= 0 and 0 <= modVmraMinRate <=
\* modVmraMaxRate, an adaption from a history strictly decreasing over time
\* sets the rate to modVmraMinRate, which is at most the rate before if that
\* rate was at least modVmraMinRate; and any adaption leaves the rate in
\* [modVmraMinRate, modVmraMaxRate].
RateFallsToMinRate ==
    [][ (/\ AdaptionStep
         /\ config.modVmraFactor >= 0
         /\ 0 <= config.modVmraMinRate
         /\ config.modVmraMinRate <= config.modVmraMaxRate) =>
          /\ DecreasingOverTime(trackerRead(store').wVar) =>
                /\ config'.updateRate = config.modVmraMinRate
                /\ config.updateRate >= config.modVmraMinRate =>
                      config'.updateRate <= config.updateRate
          /\ config.modVmraMinRate <= config'.updateRate
          /\ config'.updateRate <= config.modVmraMaxRate ]_vars

\* a window of three samples falling over time has taken the rate from 0.1
\* to modVmraMinRate
RateFallsToMinRateWitness ==
    /\ pc = "update"
    /\ run.rateSets = 1
    /\ config.modVmraLength = 3
    /\ Len(trackerRead(store).wVar) = 3
    /\ DecreasingOverTime(trackerRead(store).wVar)
    /\ config.updateRate = config.modVmraMinRate

\* C20: in a run, _optVmraUpdate adapts the rate for the first time on the
\* call at which the variance samples collected so far, the one just taken
\* included, are as many as modVmraLength; on every earlier call it leaves
\* the update rate as it is.
FirstAdaptionAtWindowLength ==
    [][ (pc = "vmra" /\ run'.adaptions = run.adaptions + 1) =>
          /\ run'.adaptions < config.modVmraLength =>
                /\ run'.rateSets = 0
                /\ config'.updateRate = config.updateRate
          /\ run'.adaptions = config.modVmraLength =>
                run'.rateSets = 1 ]_vars

\* C12: the history a run reads holds only variance samples written during
\* that run: as long as the tracker of a run has written nothing, its store
\* is empty and read() returns the empty dictionary, whatever the trackers of
\* earlier runs wrote.
HistoryOfThisRunOnly ==
    (run.tracker /\ run.adaptions = 0) =>
        /\ store = << >>
        /\ trackerRead(store) = EmptyDict

\* C13: getParams returns a deep copy.  The structure returned holds the
\* parameters of the moment of the call; a write of the caller to a structure
\* it holds changes nothing of the model's parameters, and the updates applied
\* to the model change nothing of the structures handed out before.
GetParamsIsDeepCopy ==
    [][ /\ GetParams =>
            /\ unitsAt(held[Len(held)])' = units
            /\ linksAt(held[Len(held)])' = links
        /\ (CallerWriteLinks \/ CallerWriteUnits) => UNCHANGED params
        /\ ApplyUpdates =>
            \A i \in 1..Len(held) :
                /\ unitsAt(held[i])' = unitsAt(held[i])
                /\ linksAt(held[i])' = linksAt(held[i]) ]_vars

\* a structure captured first was written by the caller, the model was
\* updated after the capture, and a later capture holds the updated weights
GetParamsIsDeepCopyWitness ==
    /\ Len(held) = 2
    /\ run.cdUpdates > 0
    /\ linksAt(held[1]).W \in CallerWeights
    /\ unitsAt(held[1]).hidden.bias \in CallerBias
    /\ linksAt(held[2]) = links
    /\ links.W \notin CallerWeights
    /\ units.hidden.bias \notin CallerBias

\* C14: restoring a captured state round-trips: setParams(S) returns true and
\* raises nothing, it makes adjacency and weights equal to those of S, and
\* with S equal to the current parameters it leaves units and links as they
\* are.
RestoreRoundTrips ==
    [][ \A i \in 1..Len(held) :
            SetParamsWith(i) =>
                /\ retVal' = "True"
                /\ links'.A = linksAt(held[i]).A
                /\ links'.W = linksAt(held[i]).W
                /\ (unitsAt(held[i]) = units /\ linksAt(held[i]) = links)
                       => UNCHANGED params ]_vars

\* C15: after any number of CD epochs (k = 1, m = 1, also with the sparsity
\* update) on batches with as many columns as there are visible units, the
\* weights have the shape |visible| x |hidden|, the visible bias 1 x |visible|
\* and the hidden bias 1 x |hidden|, and the unit labels are those of the
\* start.
ShapesKept ==
    LET v == Len(InitUnits(cls, 0).visible.label)
        h == Len(InitUnits(cls, 0).hidden.label)
    IN  /\ Shape(links.W) = << v, h >>
        /\ Shape(links.A) = << v, h >>
        /\ Shape(units.visible.bias) = << 1, v >>
        /\ Shape(units.hidden.bias) = << 1, h >>
        /\ cls = "grbm" => Shape(units.visible.lvar) = << 1, v >>
        /\ units.visible.label = InitUnits(cls, 0).visible.label
        /\ units.hidden.label = InitUnits(cls, 0).hidden.label

\* two epochs on batches of two samples have changed the weights and the
\* hidden bias, with the sparsity update enabled
ShapesKeptWitness ==
    /\ run.cdUpdates >= 2
    /\ pc = "trigger"
    /\ config.modKlEnable
    /\ Rows(dTuple.vData) = 2
    /\ "deltaH" \in run.computed
    /\ "deltaL" \in run.computed
    /\ links.W # InitLinks.W
    /\ units.hidden.bias # InitUnits(cls, 0).hidden.bias
    /\ ShapesKept

RECURSIVE MeanOver(_, _, _, _, _)

RECURSIVE SumOver(_, _, _, _)

\* the sum of the matrices f[1].key / m, ..., f[n].key / m over zeros
MeanOver(f, key, n, m, zero) ==
    IF n = 0 THEN zero
    ELSE MatAdd(MeanOver(f, key, n - 1, m, zero), MatDivN(f[n][key], m))

\* the sum of the matrices f[1].key, ..., f[n].key over zeros
SumOver(f, key, n, zero) ==
    IF n = 0 THEN zero ELSE MatAdd(SumOver(f, key, n - 1, zero), f[n][key])

\* X is S / m up to the rounding of the m divisions, each by less than one
\* unit of the last digit
MeanOf(X, S, m) ==
    \A i \in 1..Rows(X) : \A j \in 1..Cols(X) :
        Abs(m * X[i][j] - S[i][j]) < m * m

\* C16: the general path returns as vModel and hModel the arithmetic mean of
\* the final vExpect and hExpect of the m chains, for m = 1 exactly the final
\* expectations of the single chain, and every chain starts with a draw from
\* hData.
SamplingIsChainMean ==
    (pc = "vmra" /\ chain # NoChain) =>
        LET m  == config.updateCdkIterations
            f  == chain.finals
            zV == Fill(Rows(data), Cols(data), 0)
            zH == Fill(Rows(dTuple.hData), Cols(dTuple.hData), 0)
        IN  /\ Len(f) = m
            /\ dTuple.vData = data
            /\ dTuple.hData = evalUnitExpect(units, data, << "visible", "hidden" >>)
            /\ dTuple.vModel = MeanOver(f, "vExpect", m, m, zV)
            /\ dTuple.hModel = MeanOver(f, "hExpect", m, m, zH)
            /\ MeanOf(dTuple.vModel, SumOver(f, "vExpect", m, zV), m)
            /\ MeanOf(dTuple.hModel, SumOver(f, "hExpect", m, zH), m)
            /\ m = 1 => /\ dTuple.vModel = f[1].vExpect
                        /\ dTuple.hModel = f[1].hExpect
            /\ \A i \in 1..m :
                  f[i].first \in { sampleOf(dTuple.hData, rnd) : rnd \in Thresholds }

\* two chains of two steps with different ends
SamplingIsChainMeanWitness ==
    /\ pc = "vmra"
    /\ chain # NoChain
    /\ config.updateCdkIterations = 2
    /\ config.updateCdkSteps = 2
    /\ chain.finals[1].vExpect # chain.finals[2].vExpect
    /\ dTuple.vModel # chain.finals[1].vExpect
    /\ dTuple.vModel # chain.finals[2].vExpect

\* the tracker is estimating: estimation is enabled, has started and has
\* not ended
Estimating(tr) ==
    /\ tr.estimate
    /\ DOMAIN tr.state # {}
    /\ tr.state.estimateStarted
    /\ ~ tr.state.estimateEnded

\* the inspection log of a tracker
InspectionLog(tr) == IF DOMAIN tr.state = {} THEN << >> ELSE tr.state.inspection

\* C17: within one run the duration estimate is produced at most once, on the
\* trigger that sets estimateEnded, whatever the keys and the clock values of
\* the triggers; with estimation disabled it is never produced.
EstimateAtMostOnce ==
    /\ run.estimates <= 1
    /\ ~ tracker.estimate => run.estimates = 0
    /\ (tracker.estimate /\ DOMAIN tracker.state # {}) =>
           (tracker.state.estimateEnded <=> run.estimates = 1)

\* the estimate was produced, and two more triggers came with the clock
\* still advancing
EstimateAtMostOnceWitness ==
    /\ run.estimates = 1
    /\ run.triggers = 4
    /\ now = 45
    /\ tracker.state.estimateEnded

\* C18: a trigger that leaves the tracker estimating appends nothing to the
\* inspection log, however long ago the last inspection was.
NoInspectionWhileEstimating ==
    [][ (run'.triggers = run.triggers + 1 /\ Estimating(tracker')) =>
            /\ InspectionLog(tracker') = InspectionLog(tracker)
            /\ run'.evals - run.evals =
                   (IF /\ tracker'.inspect
                       /\ tracker'.state.epoch = config'.updates
                    THEN 1 ELSE 0) ]_vars

\* the tracker is estimating, with test data, and the last inspection is
\* longer ago than the interval: nothing was appended
NoInspectionWhileEstimatingWitness ==
    /\ Estimating(tracker)
    /\ tracker.inspect
    /\ tracker.data # "None"
    /\ run.triggers >= 2
    /\ tracker.state.epoch # config.updates
    /\ (now - tracker.state.inspectTime) > config.inspectTimeInterval
    /\ tracker.state.inspection = << >>
    /\ run.evals = 0

\* C19: with inspection enabled and test data set, a trigger that brings the
\* tracker's epoch to the configured number of updates (the last epoch of the
\* run, or the trigger of the abort that truncates the number) makes exactly
\* one evaluation, whatever the time since the last inspection and the state
\* of the estimation, and appends nothing to the inspection log.
FinalEvaluationOnLastEpoch ==
    [][ ( /\ run'.triggers = run.triggers + 1
          /\ tracker.inspect
          /\ tracker.data # "None"
          /\ tracker'.state.epoch = config'.updates ) =>
            /\ run'.evals = run.evals + 1
            /\ InspectionLog(tracker') = InspectionLog(tracker) ]_vars

\* the abort on the second trigger truncates the number of updates: the
\* trigger evaluates once while the tracker is estimating and the interval
\* has passed
FinalEvaluationOnLastEpochWitness ==
    /\ run.keys = << "", "q" >>
    /\ config.updates = 2
    /\ tracker.state.epoch = 2
    /\ tracker.inspect
    /\ tracker.data # "None"
    /\ Estimating(tracker)
    /\ (now - tracker.state.inspectTime) > config.inspectTimeInterval
    /\ run.evals = 1
    /\ tracker.state.inspection = << >>

\* the variance history the store holds, newest sample first
History(st) == IF "wVar" \in DOMAIN trackerRead(st) THEN trackerRead(st).wVar
               ELSE << >>

\* C21: the stored variance history is a sliding window: it is never longer
\* than modVmraLength, and every call of the rate controller puts the new
\* sample in front of the samples stored before and keeps the newest
\* modVmraLength of them, so that the oldest sample leaves once the window is
\* exceeded.
HistoryIsSlidingWindow ==
    /\ [](Len(History(store)) <= config.modVmraLength)
    /\ [][ (pc = "vmra" /\ run'.adaptions = run.adaptions + 1) =>
              LET all == << VarAll(links.W) >> \o History(store)
              IN  History(store') =
                      SubSeq(all, 1, MinOf(Len(all), config.modVmraLength)) ]_vars

\* the fourth call with a window of two: the history holds two different
\* samples, the newest being the variance of the weights
HistoryIsSlidingWindowWitness ==
    /\ pc = "update"
    /\ run.adaptions = 4
    /\ config.modVmraLength = 2
    /\ Len(History(store)) = 2
    /\ History(store)[1] = VarAll(links.W)
    /\ History(store)[1] # History(store)[2]

\* C22: within an epoch the steps come in the order sampling, parameter
\* update, rate adaption, trigger: the step after the sampling is the update,
\* the step after the update is the rate adaption, and when the rate
\* controller is called in epoch e the update of epoch e has been applied
\* (the run has made e + 1 updates), so that the adapted rate is first used
\* in epoch e + 1.
UpdateBeforeAdaption ==
    [][ /\ (pc = "sampling" /\ pc' # pc) => pc' = "update"
        /\ (pc = "update" /\ pc' # pc) => pc' = "vmra"
        /\ (pc = "vmra" /\ pc' # pc) => pc' = "trigger"
        /\ (pc = "vmra" /\ run'.adaptions = run.adaptions + 1) =>
               run.cdUpdates = epoch + 1 ]_vars

\* C23: in the general sampling path every step of a chain but the last
\* computes the visible expectation from a sample of the hidden units, and
\* the last step (j = k - 1) computes it from the hidden expectation itself
\* (hData in step 0, else the hExpect of the step before), not from a sample.
LastStepFromExpectation ==
    [][ (pc = "chains" /\ chain' # chain) =>
            LET k    == config.updateCdkSteps
                from == IF chain.j = 0 THEN chain.hData ELSE chain.locals.hExpect
            IN  IF chain.j + 1 = k
                THEN chain'.locals.vExpect =
                         evalUnitExpect(units, from, << "hidden", "visible" >>)
                ELSE \E rnd \in Thresholds :
                         chain'.locals.vExpect =
                             evalUnitExpect(units, sampleOf(from, rnd),
                                            << "hidden", "visible" >>) ]_vars

\* C24: for the class rbm the weight delta of an update cycle is
\* r * (vData^T hData - vModel^T hModel) / N in every entry, with N the
\* number of samples (rows) of the batch and r = updateRate *
\* updateFactorWeights, whatever the number of visible units.
WeightDeltaPerSample ==
    [][ ( /\ pc = "update"
          /\ pc' = "trigger"
          /\ cls = "rbm"
          /\ ~ In("links", config.ignoreUnits) ) =>
            LET r == Mul(config.updateRate, config.updateFactorWeights)
                N == Rows(dTuple.vData)
                D == MatDivN(Dot(Transpose(dTuple.vData), dTuple.hData), N)
                M == MatDivN(Dot(Transpose(dTuple.vModel), dTuple.hModel), N)
            IN  links'.W = MatAdd(links.W, MatScale(r, MatSub(D, M))) ]_vars

\* C25: in an update cycle with 'hidden' not ignored, the hidden bias changes
\* with modKlEnable by the base delta of _optCdDeltaH and then by one sparsity
\* term -max(updateRate, modKlRate) * (mean(hData) - modKlExpect), whatever
\* the other fields of the configuration are (selectivityFactor > 0
\* included); without modKlEnable and with selectivityFactor = 0 it changes
\* by the base delta only.
OneSparsityTerm ==
    [][ ( /\ pc = "update"
          /\ pc' = "trigger"
          /\ ~ In("hidden", config.ignoreUnits) ) =>
            LET base == unitUpdate(units.hidden,
                                   optCdDeltaH(cls, config, units, links, dTuple))
                kl   == unitUpdateVec(base, optKlDeltaH(config, dTuple))
            IN  /\ config.modKlEnable => units'.hidden = kl
                /\ (~ config.modKlEnable /\ config.selectivityFactor = 0) =>
                       units'.hidden = base ]_vars

\* C26: the minibatch is fetched exactly in the epochs e with
\* e mod minibatchInterval = 0, so in epoch 0 before the first sampling; no
\* other step of the loop changes the batch, so that the sampling of epoch e
\* uses the batch of epoch e - (e mod minibatchInterval); and the sampling
\* returns the batch it was given as vData.
BatchFetchedOnCadence ==
    /\ [](pc \in {"sampling", "vmra", "update", "trigger"} =>
             run.fetches = (epoch \div config.minibatchInterval) + 1)
    /\ [][ /\ (pc = "getdata" /\ pc' # pc) =>
                  IF epoch % config.minibatchInterval = 0
                  THEN run'.fetches = run.fetches + 1
                  ELSE run'.fetches = run.fetches /\ data' = data
           /\ (pc \in {"sampling", "vmra", "update", "trigger"} /\ pc' # "idle") =>
                  data' = data /\ run'.fetches = run.fetches
           /\ (pc = "sampling" /\ pc' # pc) =>
                  dTuple'.vData = data /\ dTuple'.vData # << >> ]_vars

\* the third epoch of a run with an interval of two: the second fetch was
\* made in epoch 2, none in epoch 1
BatchFetchedOnCadenceWitness ==
    /\ config.minibatchInterval = 2
    /\ epoch = 2
    /\ pc = "vmra"
    /\ run.fetches = 2
    /\ run.samplings = 3
    /\ dTuple.vData = data

\* the adjacency of l but for the row i (the first index) or the column i
\* (the second index) cleared
Cleared(A, row, col) ==
    [r \in 1..Rows(A) |-> [c \in 1..Cols(A) |->
        IF r = row \/ c = col THEN FALSE ELSE A[r][c]]]

\* C27: unlinkUnit(u) clears exactly the adjacency row of a visible unit u,
\* or exactly the adjacency column of a hidden unit u, and returns true; no
\* other adjacency entry, no weight and no bias changes.  For a label of
\* neither group it returns false and changes nothing.
UnlinkClearsRowOrColumn ==
    [][ \A unit \in LinkLabels :
          UnlinkUnitOf(unit) =>
            /\ links'.W = links.W
            /\ units' = units
            /\ IF In(unit, units.visible.label)
               THEN /\ retVal' = "True"
                    /\ links'.A = Cleared(links.A, IndexOf(units.visible.label, unit), 0)
               ELSE IF In(unit, units.hidden.label)
               THEN /\ retVal' = "True"
                    /\ links'.A = Cleared(links.A, 0, IndexOf(units.hidden.label, unit))
               ELSE /\ retVal' = "False"
                    /\ links' = links ]_vars

\* the row of v1 and the column of h2 are cleared, the link of v2 and h1 is
\* left
UnlinkClearsRowOrColumnWitness ==
    /\ units = LinkUnits
    /\ links.A = << << FALSE, FALSE >>, << TRUE, FALSE >> >>
    /\ links.W \notin { Fill(2, 2, 0) }
    /\ retVal = "True"

\* C28: getLinks returns exactly the pairs (v, h) whose adjacency entry is
\* set; removeLinks(L) clears the entry of every link of L, in either
\* orientation, and leaves every other entry as it was; so an entry cleared
\* by removeLinks or unlinkUnit is never set again by a later call of them.
RemovedLinksStayRemoved ==
    [][ /\ GetLinks =>
              held'[1] = { << units.visible.label[i], units.hidden.label[j] >> :
                             << i, j >> \in { q \in (1..2) \X (1..2) :
                                                links.A[q[1]][q[2]] } }
        /\ \A list \in LinkLists :
              RemoveLinksOf(list) =>
                 \A i \in 1..2, j \in 1..2 :
                    LET v == units.visible.label[i]
                        h == units.hidden.label[j]
                    IN  links'.A[i][j] =
                            IF << v, h >> \in list \/ << h, v >> \in list
                            THEN FALSE ELSE links.A[i][j]
        /\ \A i \in 1..2, j \in 1..2 :
              ~ links.A[i][j] => ~ links'.A[i][j] ]_vars

\* the hidden units after the regularizer updates of a cycle
AfterRegularizers(cfg, hidden, t) ==
    LET h1 == IF cfg.modKlEnable
              THEN unitUpdateVec(hidden, optKlDeltaH(cfg, t)) ELSE hidden
    IN  IF cfg.selectivityFactor > 0
        THEN unitUpdateVec(h1, optKlDeltaH(cfg, t)) ELSE h1

\* C29: in an update cycle the deltas of the visible units, the hidden units
\* and the links are all computed from the parameters of the start of the
\* cycle: every class of parameters ends as its start value plus the delta
\* for the start values, so that the order in which the three deltas are
\* applied is without effect, also for the class grbm.
DeltasFromStartOfCycle ==
    [][ (pc = "update" /\ pc' = "trigger") =>
            LET ignore == config.ignoreUnits
                deltaV == optCdDeltaV(cls, config, units, links, dTuple)
                deltaH == optCdDeltaH(cls, config, units, links, dTuple)
                deltaL == optCdDeltaL(cls, config, units, links, dTuple)
            IN  /\ ~ In("links", ignore) => links' = updateLinks(links, deltaL)
                /\ ~ In("visible", ignore) =>
                       units'.visible = unitUpdate(units.visible, deltaV)
                /\ ~ In("hidden", ignore) =>
                       units'.hidden =
                           AfterRegularizers(config,
                               unitUpdate(units.hidden, deltaH), dTuple) ]_vars

\* a cycle of the class grbm with nothing ignored has changed the
\* log-variance the link delta reads, and the weights
DeltasFromStartOfCycleWitness ==
    /\ pc = "trigger"
    /\ cls = "grbm"
    /\ run.computed = {"deltaV", "deltaH", "deltaL"}
    /\ MatFinite(units.visible.lvar)
    /\ MatFinite(links.W)
    /\ units.visible.lvar # InitUnits(cls, 0).visible.lvar
    /\ links.W # InitLinks.W

\* the schedule s has an entry for the type of the system that sets 'updates'
OverridesUpdates(s) ==
    /\ "params" \in DOMAIN s
    /\ getType(cls) \in DOMAIN s.params
    /\ "updates" \in DOMAIN s.params[getType(cls)]

\* C30: between the resolution of the configuration at the start of a call
\* of optimizeParams and its return, the only fields of the 'optimize'
\* configuration that change are 'updates', set to the epoch of the tracker
\* by a trigger call that reads the abort key, and 'updateRate', set by the
\* rate adaption.  The changes stay in the configuration of the instance:
\* the call that follows a run aborted at epoch k, with a schedule that
\* does not set 'updates', starts from the rate the run left, takes k as
\* its number of updates and so runs k epochs at most.
ConfigChangesOutliveRun ==
    /\ [](run.triggers <= nUpdates)
    /\ [][ /\ pc # "idle" =>
                /\ DOMAIN config' = DOMAIN config
                /\ \A f \in DOMAIN config :
                      config'[f] # config[f] =>
                          \/ /\ f = "updates"
                             /\ pc = "trigger"
                             /\ run'.keys[Len(run'.keys)] = "q"
                             /\ config'.updates = run'.triggers
                          \/ /\ f = "updateRate"
                             /\ pc = "vmra"
           /\ (pc = "idle" /\ calls' = calls + 1 /\ Aborted
                 /\ ~ OverridesUpdates(schedule')) =>
                /\ config.updates = run.triggers
                /\ config'.updates = run.triggers
                /\ "params" \notin DOMAIN schedule' =>
                       config'.updateRate = config.updateRate
                /\ pc' = "getdata" => nUpdates' = run.triggers ]_vars

\* a run was aborted after the rate adaption had set the rate, and the call
\* after it has run all the epochs it was left with
ConfigChangesOutliveRunWitness ==
    /\ calls = 2
    /\ pc = "idle"
    /\ retVal = "True"
    /\ ~ OverridesUpdates(schedule)
    /\ run.triggers >= 1
    /\ run.triggers = config.updates
    /\ config.updates < MaxUpdates
    /\ config.updateRate # 100

====
